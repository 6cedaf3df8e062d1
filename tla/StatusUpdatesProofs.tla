------------------------- MODULE StatusUpdatesProofs -------------------------
(***************************************************************************)
(* Settled and ShutdownIsFinal of StatusUpdates, for any set of players,   *)
(* a channel of any size but zero, and any number of turns.                *)
(*                                                                         *)
(* Settled is strengthened to what holds on the way (Carried): a change    *)
(* that is not silent has somebody under way who will show it, or it has   *)
(* been tried with a presence that knew of it, since when every older      *)
(* presence is marked late. That somebody is an event, a goroutine that    *)
(* is to read the state, or one that holds a presence of age 0.            *)
(***************************************************************************)
EXTENDS StatusUpdates, TLAPS, SequenceTheorems

\* What may follow what in the steps of a goroutine, and what may come last.
Pairs == {<<"state", "players">>, <<"players", "edit">>, <<"players", "post">>,
          <<"edit", "result">>, <<"edit", "set">>, <<"result", "state">>,
          <<"clear", "set">>, <<"set", "notify">>, <<"notify", "watch">>,
          <<"sync", "watch">>, <<"watch", "state">>}
Lasts == {"edit", "post", "notify", "quiet"}
Dos == {"sync", "watch", "state", "players", "edit", "clear", "result", "post", "set",
        "notify", "quiet"}

Chained(q) == \A i \in 1 .. Len(q) - 1 : <<q[i].do, q[i + 1].do>> \in Pairs
Shaped(q) == Chained(q) /\ (q # <<>> => q[Len(q)].do \in Lasts)
NoQuiet(q) == \A i \in 1 .. Len(q) : q[i].do # "quiet"
Made(g, q) == q \in Seq(Step) /\ Shaped(q) /\ (g = "op" \/ NoQuiet(q))

Shapes == \A g \in Goroutines : Made(g, todo[g])

\* A presence that is not aged is the server's and the players' as they are.
Known(g) ==
  /\ At(g, "players") =>
       seen[g].state \in States /\ (seen[g].age = 0 => seen[g].state = server)
  /\ At(g, "edit") \/ At(g, "post") =>
       /\ seen[g].state \in States
       /\ seen[g].age = 0 => seen[g].state = server /\ seen[g].players = online
Presences == \A g \in Goroutines : Known(g)

Fresh(g) ==
  seen[g].age = 0 /\ (At(g, "players") \/ At(g, "edit") \/ At(g, "post"))
Told ==
  \/ events # <<>>
  \/ \E g \in Goroutines : At(g, "state") \/ At(g, "notify") \/ Fresh(g)
  \/ Idle("op") /\ Waits("caller")

Newest ==
  /\ \A g \in Goroutines : seen[g].age > 0 => seen[g].late
  /\ shown = Nothing \/ failed \/ overtaken \/ shown = Truth

Carried == main = "run" => silent \/ Told \/ Newest

\* How far the shutdown is tells who has ended.
Ended ==
  /\ main \in {"watchers", "stopping", "worker", "done"} =>
       watching = "late" \/ (watching = "off" /\ Idle("watcher"))
  /\ main \in {"worker", "done"} => Idle("worker")
  /\ main = "done" => Idle("tracker")

IInv == TypeOK /\ Shapes /\ Presences /\ Carried /\ Ended
-----------------------------------------------------------------------------
(* Steps and their sequences.                                               *)

LEMMA Steps ==
  /\ \A what \in {"sync", "watch", "state", "players", "edit", "clear", "result", "post"} :
       Do(what) \in Step /\ Do(what).do = what
  /\ \A s \in States : /\ Set(s) \in Step /\ Set(s).do = "set"
                       /\ Notify(s) \in Step /\ Notify(s).do = "notify"
                       /\ Quietly(s) \in Step /\ Quietly(s).do = "quiet"
  /\ \A x \in Step : x.do \in {"set", "notify", "quiet"} => x.to \in States
  BY DEF Step, Do, Set, Notify, Quietly

LEMMA One ==
  ASSUME NEW x \in Step
  PROVE  /\ <<x>> \in Seq(Step) /\ <<x>> # <<>> /\ Head(<<x>>) = x /\ Chained(<<x>>)
         /\ x.do \in Lasts => Shaped(<<x>>)
         /\ x.do # "quiet" => NoQuiet(<<x>>)
<1> DEFINE q == <<x>>
<1>1. q \in Seq(Step) /\ q # <<>> /\ Head(q) = x /\ Len(q) = 1 /\ q[1] = x
  OBVIOUS
<1> HIDE DEF q
<1>2. Chained(q) /\ (x.do \in Lasts => Shaped(q)) /\ (x.do # "quiet" => NoQuiet(q))
  BY <1>1 DEF Chained, Shaped, NoQuiet
<1> QED BY <1>1, <1>2 DEF q

LEMMA Two ==
  ASSUME NEW x \in Step, NEW y \in Step, <<x.do, y.do>> \in Pairs, y.do \in Lasts
  PROVE  /\ <<x, y>> \in Seq(Step) /\ <<x, y>> # <<>> /\ Head(<<x, y>>) = x
         /\ Shaped(<<x, y>>)
         /\ x.do # "quiet" /\ y.do # "quiet" => NoQuiet(<<x, y>>)
<1> DEFINE q == <<x, y>>
<1>1. q \in Seq(Step) /\ q # <<>> /\ Head(q) = x /\ Len(q) = 2 /\ q[1] = x /\ q[2] = y
  OBVIOUS
<1> HIDE DEF q
<1>2. Shaped(q)
  BY <1>1 DEF Chained, Shaped
<1>3. x.do # "quiet" /\ y.do # "quiet" => NoQuiet(q)
  BY <1>1 DEF NoQuiet
<1> QED BY <1>1, <1>2, <1>3 DEF q

LEMMA Three ==
  ASSUME NEW x \in Step, NEW y \in Step, NEW z \in Step,
         <<x.do, y.do>> \in Pairs, <<y.do, z.do>> \in Pairs, z.do \in Lasts
  PROVE  /\ <<x, y, z>> \in Seq(Step) /\ <<x, y, z>> # <<>> /\ Head(<<x, y, z>>) = x
         /\ Len(<<x, y, z>>) = 3 /\ <<x, y, z>>[3] = z
         /\ Shaped(<<x, y, z>>)
         /\ x.do # "quiet" /\ y.do # "quiet" /\ z.do # "quiet" => NoQuiet(<<x, y, z>>)
<1> DEFINE q == <<x, y, z>>
<1>1. /\ q \in Seq(Step) /\ q # <<>> /\ Head(q) = x /\ Len(q) = 3
      /\ q[1] = x /\ q[2] = y /\ q[3] = z
  OBVIOUS
<1> HIDE DEF q
<1>2. Shaped(q)
  <2>1. \A i \in 1 .. 2 : i = 1 \/ i = 2
    OBVIOUS
  <2> QED BY <1>1, <2>1 DEF Chained, Shaped
<1>3. x.do # "quiet" /\ y.do # "quiet" /\ z.do # "quiet" => NoQuiet(q)
  <2>1. \A i \in 1 .. 3 : i = 1 \/ i = 2 \/ i = 3
    OBVIOUS
  <2> QED BY <1>1, <2>1 DEF NoQuiet
<1> QED BY <1>1, <1>2, <1>3 DEF q

LEMMA Joined ==
  ASSUME NEW a \in Seq(Step), NEW b \in Seq(Step), a # <<>>, b # <<>>,
         Chained(a), Shaped(b), <<a[Len(a)].do, Head(b).do>> \in Pairs
  PROVE  /\ a \o b \in Seq(Step) /\ a \o b # <<>> /\ Head(a \o b) = Head(a)
         /\ Shaped(a \o b)
         /\ NoQuiet(a) /\ NoQuiet(b) => NoQuiet(a \o b)
<1> DEFINE q == a \o b
           m == Len(a)
           n == Len(b)
<1>1. m \in Nat \ {0} /\ n \in Nat \ {0} /\ Head(a) = a[1] /\ Head(b) = b[1]
  BY EmptySeq
<1>2. /\ q \in Seq(Step) /\ Len(q) = m + n
      /\ \A i \in 1 .. m + n : q[i] = IF i <= m THEN a[i] ELSE b[i - m]
  BY ConcatProperties
<1> HIDE DEF q, m, n
<1>3. \A i \in 1 .. m : i \in 1 .. m + n /\ q[i] = a[i]
  BY <1>1, <1>2
<1>4. \A i \in 1 .. n : m + i \in 1 .. m + n /\ q[m + i] = b[i]
  BY <1>1, <1>2
<1>5. q # <<>> /\ Head(q) = Head(a)
  BY <1>1, <1>2, <1>3, EmptySeq
<1>6. Chained(q)
  <2> SUFFICES ASSUME NEW i \in 1 .. m + n - 1 PROVE <<q[i].do, q[i + 1].do>> \in Pairs
    BY <1>1, <1>2 DEF Chained
  <2>1. CASE i < m
    <3>1. i \in 1 .. m - 1 /\ i \in 1 .. m /\ i + 1 \in 1 .. m
      BY <1>1, <2>1
    <3> QED BY <1>3, <3>1 DEF Chained, m
  <2>2. CASE i = m
    <3>1. q[i] = a[m] /\ q[i + 1] = b[1]
      BY <1>1, <1>3, <1>4, <2>2
    <3> QED BY <1>1, <3>1 DEF m
  <2>3. CASE i > m
    <3>1. i - m \in 1 .. n - 1 /\ i - m \in 1 .. n /\ (i - m) + 1 \in 1 .. n
          /\ i = m + (i - m) /\ i + 1 = m + ((i - m) + 1)
      BY <1>1, <2>3
    <3>2. q[i] = b[i - m] /\ q[i + 1] = b[(i - m) + 1]
      BY <1>4, <3>1
    <3> QED BY <3>1, <3>2 DEF Shaped, Chained, n
  <2> QED BY <1>1, <2>1, <2>2, <2>3
<1>7. Shaped(q)
  <2>1. q[Len(q)] = b[n]
    BY <1>1, <1>2, <1>4
  <2> QED BY <1>6, <2>1 DEF Shaped, n
<1>8. NoQuiet(a) /\ NoQuiet(b) => NoQuiet(q)
  <2> SUFFICES ASSUME NoQuiet(a), NoQuiet(b), NEW i \in 1 .. m + n PROVE q[i].do # "quiet"
    BY <1>2 DEF NoQuiet
  <2>1. CASE i <= m
    <3>1. i \in 1 .. m
      BY <1>1, <2>1
    <3> QED BY <1>3, <3>1 DEF NoQuiet, m
  <2>2. CASE i > m
    <3>1. i - m \in 1 .. n /\ i = m + (i - m)
      BY <1>1, <2>2
    <3>2. q[i] = b[i - m]
      BY <1>4, <3>1
    <3> QED BY <3>1, <3>2 DEF NoQuiet, n
  <2> QED BY <1>1, <2>1, <2>2
<1> QED BY <1>2, <1>5, <1>7, <1>8 DEF q

\* The rest of a sequence.
LEMMA Rest ==
  ASSUME NEW q \in Seq(Step), q # <<>>, Shaped(q)
  PROVE  /\ Head(q) \in Step /\ Tail(q) \in Seq(Step) /\ Shaped(Tail(q))
         /\ NoQuiet(q) => NoQuiet(Tail(q)) /\ Head(q).do # "quiet"
         /\ \/ Tail(q) = <<>> /\ Head(q).do \in Lasts
            \/ Tail(q) # <<>> /\ <<Head(q).do, Head(Tail(q)).do>> \in Pairs
         /\ Head(q).do # "result" /\ (\E i \in 1 .. Len(q) : q[i].do = "result") =>
              \E i \in 1 .. Len(Tail(q)) : Tail(q)[i].do = "result"
<1> DEFINE t == Tail(q)
           n == Len(q)
<1>1. n \in Nat \ {0} /\ Head(q) = q[1]
  BY EmptySeq
<1>2. /\ Head(q) \in Step /\ t \in Seq(Step) /\ Len(t) = n - 1
      /\ \A i \in 1 .. n - 1 : t[i] = q[i + 1]
  BY HeadTailProperties
<1>a. n = Len(q)
  OBVIOUS
<1> HIDE DEF t, n
<1>3. t = <<>> \/ (t # <<>> /\ Head(t) = t[1])
  BY <1>2, EmptySeq
<1>4. t = <<>> <=> n = 1
  <2>1. t = <<>> <=> Len(t) = 0
    BY <1>2, EmptySeq
  <2> QED BY <1>1, <1>2, <2>1
<1>5. Chained(t)
  <2> SUFFICES ASSUME NEW i \in 1 .. n - 2 PROVE <<t[i].do, t[i + 1].do>> \in Pairs
    BY <1>1, <1>2 DEF Chained
  <2>1. i \in 1 .. n - 1 /\ i + 1 \in 1 .. n - 1
    BY <1>1
  <2>2. t[i] = q[i + 1] /\ t[i + 1] = q[(i + 1) + 1]
    BY <1>2, <2>1
  <2> QED BY <2>1, <2>2 DEF Shaped, Chained, n
<1>6. Shaped(t)
  <2>1. ASSUME t # <<>> PROVE t[Len(t)].do \in Lasts
    <3>1. n > 1
      BY <1>1, <1>4, <2>1
    <3>2. t[n - 1] = q[(n - 1) + 1]
      BY <1>1, <1>2, <3>1
    <3>3. t[Len(t)] = q[n]
      BY <1>1, <1>2, <3>2
    <3> QED BY <1>1, <3>3, EmptySeq DEF Shaped, n
  <2> QED BY <1>5, <2>1 DEF Shaped
<1>7. NoQuiet(q) => NoQuiet(t) /\ Head(q).do # "quiet"
  <2> SUFFICES ASSUME NoQuiet(q) PROVE NoQuiet(t) /\ q[1].do # "quiet"
    BY <1>1
  <2>1. \A i \in 1 .. n - 1 : i + 1 \in 1 .. n
    BY <1>1
  <2> QED BY <1>1, <1>2, <2>1 DEF NoQuiet, n
<1>8. \/ t = <<>> /\ Head(q).do \in Lasts
      \/ t # <<>> /\ <<Head(q).do, Head(t).do>> \in Pairs
  <2>1. CASE n = 1
    BY <1>1, <1>4, <2>1 DEF Shaped, n
  <2>2. CASE n # 1
    <3>1. 1 \in 1 .. n - 1
      BY <1>1, <2>2
    <3>2. t # <<>> /\ Head(t) = q[1 + 1]
      BY <1>2, <1>3, <1>4, <2>2, <3>1
    <3> QED BY <1>1, <3>1, <3>2 DEF Shaped, Chained, n
  <2> QED BY <2>1, <2>2
<1>9. ASSUME Head(q).do # "result", NEW i \in 1 .. n, q[i].do = "result"
      PROVE  \E j \in 1 .. Len(t) : t[j].do = "result"
  <2>1. i # 1
    BY <1>1, <1>9
  <2>2. i - 1 \in 1 .. n - 1 /\ (i - 1) + 1 = i
    BY <1>1, <2>1
  <2>3. t[i - 1] = q[i]
    BY <1>2, <2>2
  <2> QED BY <1>2, <1>9, <2>2, <2>3
<1> QED BY <1>2, <1>6, <1>7, <1>8, <1>9 DEF t, n

LEMMA UpdateMade ==
  /\ Update \in Seq(Step) /\ Update # <<>> /\ Head(Update).do = "state"
  /\ Len(Update) = 3 /\ Update[3].do = "edit"
  /\ Shaped(Update) /\ NoQuiet(Update)
<1> DEFINE x == Do("state")
           y == Do("players")
           z == Do("edit")
<1>1. x \in Step /\ y \in Step /\ z \in Step /\ x.do = "state" /\ y.do = "players" /\ z.do = "edit"
  BY Steps
<1>2. Update = <<x, y, z>>
  BY DEF Update
<1> HIDE DEF x, y, z
<1>3. <<x.do, y.do>> \in Pairs /\ <<y.do, z.do>> \in Pairs /\ z.do \in Lasts
  BY <1>1 DEF Pairs, Lasts
<1> QED BY <1>1, <1>2, <1>3, Three

LEMMA OnReadyMade ==
  /\ OnReady \in Seq(Step) /\ OnReady # <<>> /\ Shaped(OnReady) /\ NoQuiet(OnReady)
  /\ Head(OnReady).do = "sync"
  /\ Tail(OnReady) # <<>> /\ Head(Tail(OnReady)).do = "watch"
<1> DEFINE v == Do("sync")
           w == Do("watch")
           x == Do("state")
           y == Do("players")
           z == Do("post")
<1>1. /\ v \in Step /\ w \in Step /\ x \in Step /\ y \in Step /\ z \in Step
      /\ v.do = "sync" /\ w.do = "watch" /\ x.do = "state" /\ y.do = "players" /\ z.do = "post"
  BY Steps
<1>2. OnReady = <<v, w, x, y, z>>
  BY DEF OnReady
<1> HIDE DEF v, w, x, y, z
<1> DEFINE q == <<v, w, x, y, z>>
<1>3. /\ q \in Seq(Step) /\ q # <<>> /\ Len(q) = 5 /\ Head(q) = v
      /\ q[1] = v /\ q[2] = w /\ q[3] = x /\ q[4] = y /\ q[5] = z
  BY <1>1
<1> HIDE DEF q
<1>4. /\ <<"sync", "watch">> \in Pairs /\ <<"watch", "state">> \in Pairs
      /\ <<"state", "players">> \in Pairs /\ <<"players", "post">> \in Pairs
      /\ "post" \in Lasts /\ "sync" \notin Lasts
  BY DEF Pairs, Lasts
<1>5. Shaped(q)
  <2>1. \A i \in 1 .. 4 : i = 1 \/ i = 2 \/ i = 3 \/ i = 4
    OBVIOUS
  <2>2. 1 + 1 = 2 /\ 2 + 1 = 3 /\ 3 + 1 = 4 /\ 4 + 1 = 5 /\ Len(q) - 1 = 4
    BY <1>3
  <2>5. q[1].do = "sync" /\ q[2].do = "watch" /\ q[3].do = "state"
        /\ q[4].do = "players" /\ q[5].do = "post"
    BY <1>1, <1>3
  <2>6. ASSUME NEW i \in 1 .. 4 PROVE <<q[i].do, q[i + 1].do>> \in Pairs
    <3>1. CASE i = 1
      BY <1>4, <2>2, <2>5, <3>1
    <3>2. CASE i = 2
      BY <1>4, <2>2, <2>5, <3>2
    <3>3. CASE i = 3
      BY <1>4, <2>2, <2>5, <3>3
    <3>4. CASE i = 4
      BY <1>4, <2>2, <2>5, <3>4
    <3> QED BY <2>1, <3>1, <3>2, <3>3, <3>4
  <2>7. Chained(q)
    BY <2>2, <2>6 DEF Chained
  <2> QED BY <1>1, <1>3, <1>4, <2>7 DEF Shaped
<1>6. NoQuiet(q)
  <2>1. \A i \in 1 .. 5 : i = 1 \/ i = 2 \/ i = 3 \/ i = 4 \/ i = 5
    OBVIOUS
  <2> QED BY <1>1, <1>3, <2>1 DEF NoQuiet
<1>7. Tail(q) # <<>> /\ <<"sync", Head(Tail(q)).do>> \in Pairs
  BY <1>1, <1>3, <1>4, <1>5, Rest
<1>8. Head(Tail(q)).do = "watch"
  BY <1>7 DEF Pairs
<1> QED BY <1>1, <1>2, <1>3, <1>5, <1>6, <1>7, <1>8 DEF q

LEMMA ClearMade ==
  ASSUME NEW s \in States
  PROVE  LET q == <<Do("clear"), Set(s), Notify(s)>>
         IN  /\ q \in Seq(Step) /\ q # <<>> /\ Head(q).do = "clear" /\ Shaped(q) /\ NoQuiet(q)
             /\ Len(q) = 3 /\ q[3].do = "notify"
<1> DEFINE x == Do("clear")
           y == Set(s)
           z == Notify(s)
<1>1. x \in Step /\ y \in Step /\ z \in Step /\ x.do = "clear" /\ y.do = "set" /\ z.do = "notify"
  BY Steps
<1> HIDE DEF x, y, z
<1>2. <<x.do, y.do>> \in Pairs /\ <<y.do, z.do>> \in Pairs /\ z.do \in Lasts
  BY <1>1 DEF Pairs, Lasts
<1>3. /\ <<x, y, z>> \in Seq(Step) /\ <<x, y, z>> # <<>> /\ Head(<<x, y, z>>).do = "clear"
      /\ Len(<<x, y, z>>) = 3 /\ <<x, y, z>>[3].do = "notify"
      /\ Shaped(<<x, y, z>>) /\ NoQuiet(<<x, y, z>>)
  BY <1>1, <1>2, Three
<1> QED BY <1>3 DEF x, y, z

LEMMA SetMade ==
  ASSUME NEW s \in States
  PROVE  LET q == <<Set(s), Notify(s)>>
         IN  /\ q \in Seq(Step) /\ q # <<>> /\ Head(q).do = "set" /\ Shaped(q) /\ NoQuiet(q)
             /\ Len(q) = 2 /\ q[2].do = "notify"
<1> DEFINE x == Set(s)
           y == Notify(s)
<1>1. x \in Step /\ y \in Step /\ x.do = "set" /\ y.do = "notify"
  BY Steps
<1> HIDE DEF x, y
<1>2. <<x.do, y.do>> \in Pairs /\ y.do \in Lasts
  BY <1>1 DEF Pairs, Lasts
<1>3. /\ <<x, y>> \in Seq(Step) /\ <<x, y>> # <<>> /\ Head(<<x, y>>).do = "set"
      /\ Shaped(<<x, y>>) /\ NoQuiet(<<x, y>>)
  BY <1>1, <1>2, Two
<1>4. Len(<<x, y>>) = 2 /\ <<x, y>>[2].do = "notify"
  BY <1>1
<1> QED BY <1>3, <1>4 DEF x, y

LEMMA TransitionMade ==
  ASSUME NEW s \in States
  PROVE  /\ Transition(s) \in Seq(Step) /\ Transition(s) # <<>>
         /\ Head(Transition(s)).do \in {"clear", "set"}
         /\ Transition(s)[Len(Transition(s))].do = "notify"
         /\ Shaped(Transition(s)) /\ NoQuiet(Transition(s))
<1>1. CASE s \in {"stopped", "crashed"}
  BY <1>1, ClearMade DEF Transition
<1>2. CASE s \notin {"stopped", "crashed"}
  BY <1>2, SetMade DEF Transition
<1> QED BY <1>1, <1>2

LEMMA EndsMade ==
  ASSUME NEW s \in States, NEW q \in Ends(s)
  PROVE  q \in Seq(Step) /\ q # <<>> /\ Head(q).do \in {"clear", "set", "quiet"} /\ Shaped(q)
<1>1. "stopped" \in States /\ "running" \in States /\ "crashed" \in States
  BY DEF States
<1>2. CASE q = <<Quietly("stopped")>>
  <2>1. Quietly("stopped") \in Step /\ Quietly("stopped").do = "quiet"
    BY <1>1, Steps
  <2>2. "quiet" \in Lasts
    BY DEF Lasts
  <2> QED BY <1>2, <2>1, <2>2, One
<1>3. CASE \E r \in {"running", "crashed"} : q = <<Do("clear"), Set(r), Notify(r)>>
  BY <1>1, <1>3, ClearMade
<1>4. CASE q = Transition("stopped")
  BY <1>1, <1>4, TransitionMade
<1> QED BY <1>2, <1>3, <1>4 DEF Ends

\* The steps of the caller of a Start or Stop.
LEMMA CallerMade ==
  ASSUME NEW button \in BOOLEAN
  PROVE  LET q == (IF button THEN Update ELSE <<>>) \o <<Do("result")>> \o Update
         IN  /\ q \in Seq(Step) /\ q # <<>> /\ Shaped(q) /\ NoQuiet(q)
             /\ Head(q).do = IF button THEN "state" ELSE "result"
<1> DEFINE r == <<Do("result")>>
<1>1. Do("result") \in Step /\ Do("result").do = "result"
  BY Steps
<1>2. /\ r \in Seq(Step) /\ r # <<>> /\ Head(r).do = "result" /\ Chained(r) /\ NoQuiet(r)
      /\ Len(r) = 1 /\ r[1].do = "result"
  BY <1>1, One
<1> HIDE DEF r
<1>3. <<"result", "state">> \in Pairs /\ <<"edit", "result">> \in Pairs
  BY DEF Pairs
<1>4. /\ r \o Update \in Seq(Step) /\ r \o Update # <<>> /\ Head(r \o Update).do = "result"
      /\ Shaped(r \o Update) /\ NoQuiet(r \o Update)
  BY <1>2, <1>3, UpdateMade, Joined
<1>5. CASE button
  <2>1. Update \o (r \o Update) = (Update \o r) \o Update
    <3>1. Update \in Seq(Step) /\ r \in Seq(Step)
      BY <1>2, UpdateMade
    <3>2. \A a, b, c \in Seq(Step) : (a \o b) \o c = a \o (b \o c)
      BY ConcatAssociative
    <3> QED BY <3>1, <3>2
  <2>2. /\ Update \o (r \o Update) \in Seq(Step) /\ Update \o (r \o Update) # <<>>
        /\ Shaped(Update \o (r \o Update)) /\ NoQuiet(Update \o (r \o Update))
        /\ Head(Update \o (r \o Update)).do = "state"
    BY <1>3, <1>4, UpdateMade, Joined DEF Shaped
  <2> QED BY <1>5, <2>1, <2>2 DEF r
<1>6. CASE ~button
  <2>1. <<>> \o r = r
    BY <1>2, ConcatEmptySeq
  <2> QED BY <1>4, <1>6, <2>1 DEF r
<1> QED BY <1>5, <1>6
-----------------------------------------------------------------------------
(* What a step may change.                                                  *)

Changes ==
  /\ lines' = lines \/ LogLine \/ ProcessLine
  /\ events' = events \/ HandleEvent \/ \E g \in Goroutines : NotifyStateChange(g)
  /\ turns' = turns \/ Turn
  /\ \/ server' = server
     \/ \E button \in BOOLEAN : Command(button)
     \/ \E g \in Goroutines : SetState(g) \/ SetError(g)
  /\ online' = online \/ ProcessLine \/ \E g \in Goroutines : Clear(g)
  /\ \/ seen' = seen \/ Ages
     \/ \E g \in Goroutines : ReadState(g) \/ ReadPlayers(g) \/ Edit(g) \/ Post(g)
  /\ \/ shown' = shown \/ shown' = Offline
     \/ \E g \in Goroutines : Edit(g) \/ Post(g)
  /\ main' = main \/ UpdateToOffline \/ Shutdown
  /\ watching' = watching \/ watching' \in {"off", "on", "late"}
  /\ revived' = revived \/ Ready
  /\ \/ overtaken' = overtaken
     \/ \E g \in Goroutines : overtaken' = seen[g].late
  /\ failed' = failed \/ failed' = TRUE \/ failed' = FALSE
  /\ silent' = silent \/ silent' \in BOOLEAN

LEMMA Frame ==
  ASSUME [Next]_vars PROVE Changes
<1>1. CASE UNCHANGED vars
  BY <1>1 DEF vars, Changes
<1>2. CASE Notice
  BY <1>2 DEF Notice, Changes, outcome, guards
<1>3. ASSUME NEW button \in BOOLEAN, Command(button) PROVE Changes
  BY <1>3 DEF Command, Changes, outcome, guards
<1>4. CASE LogLine
  BY <1>4 DEF LogLine, Changes, outcome, guards
<1>5. CASE HandleEvent
  BY <1>5 DEF HandleEvent, Changes, outcome, guards
<1>6. CASE ProcessLine
  BY <1>6 DEF ProcessLine, Changes, outcome, guards
<1>7. ASSUME NEW g \in Goroutines, Goroutine(g) PROVE Changes
  <2>1. CASE Interrupted(g)
    BY <2>1 DEF Interrupted, Changes, outcome, guards
  <2>2. CASE Clear(g)
    BY <2>2 DEF Clear, Changes, outcome, guards
  <2>3. CASE SetState(g)
    BY <2>3 DEF SetState, Changes, outcome, guards
  <2>4. CASE SetError(g)
    BY <2>4 DEF SetError, Changes, outcome, guards
  <2>5. CASE NotifyStateChange(g)
    BY <2>5 DEF NotifyStateChange, Changes, outcome, guards
  <2>6. CASE Result(g)
    BY <2>6 DEF Result, Changes, outcome, guards
  <2>7. CASE ReadState(g)
    BY <2>7 DEF ReadState, Changes, outcome, guards
  <2>8. CASE ReadPlayers(g)
    BY <2>8 DEF ReadPlayers, Changes, outcome, guards
  <2>9. CASE Edit(g)
    BY <2>9 DEF Edit, Show, Tried, Changes, outcome, guards
  <2>10. CASE Post(g)
    BY <2>10 DEF Post, Show, Tried, Changes, outcome, guards
  <2> QED BY <1>7, <2>1, <2>2, <2>3, <2>4, <2>5, <2>6, <2>7, <2>8, <2>9, <2>10 DEF Goroutine
<1>8. CASE UpdateToOffline
  BY <1>8 DEF UpdateToOffline, Changes, guards
<1>9. CASE Shutdown
  BY <1>9 DEF Shutdown, StopWatchers, Changes, outcome
<1>10. CASE Ready
  BY <1>10 DEF Ready, Changes, outcome
<1>11. CASE SyncState
  BY <1>11 DEF SyncState, Changes, outcome, guards
<1>12. CASE StartWatchers
  BY <1>12 DEF StartWatchers, Changes, outcome
<1> QED BY <1>1, <1>2, <1>3, <1>4, <1>5, <1>6, <1>7, <1>8, <1>9, <1>10, <1>11, <1>12 DEF Next
-----------------------------------------------------------------------------
(* The steps that are left.                                                 *)

LEMMA HeadStep ==
  ASSUME TypeOK, NEW g \in Goroutines, NEW what, At(g, what)
  PROVE  /\ todo[g] \in Seq(Step) /\ todo[g] # <<>> /\ Head(todo[g]) \in Step
         /\ Head(todo[g]).do = what
<1>1. todo[g] \in Seq(Step) /\ todo[g] # <<>>
  BY DEF TypeOK, At
<1> QED BY <1>1, HeadTailProperties DEF At

LEMMA Given ==
  ASSUME TypeOK, Shapes, NEW g \in Goroutines, NEW q, Made(g, q), todo' = [todo EXCEPT ![g] = q]
  PROVE  /\ todo' \in [Goroutines -> Seq(Step)] /\ Shapes'
         /\ todo'[g] = q /\ \A h \in Goroutines : h # g => todo'[h] = todo[h]
<1>1. todo'[g] = q /\ \A h \in Goroutines : h # g => todo'[h] = todo[h]
  BY DEF TypeOK
<1>2. Shapes'
  BY <1>1 DEF Shapes
<1> QED BY <1>1, <1>2 DEF TypeOK, Made

\* Taking a step: what comes next, and whether the result is waited for.
LEMMA Advances ==
  ASSUME TypeOK, Shapes, NEW g \in Goroutines, NEW what, At(g, what), Advance(g)
  PROVE  /\ todo' \in [Goroutines -> Seq(Step)] /\ Shapes'
         /\ \A h \in Goroutines : h # g => todo'[h] = todo[h]
         /\ \/ Idle(g)' /\ what \in Lasts
            \/ \E next \in Dos : At(g, next)' /\ <<what, next>> \in Pairs
         /\ what # "result" /\ Waits("caller") => Waits("caller")'
<1>1. todo[g] # <<>> /\ Head(todo[g]).do = what /\ Made(g, todo[g])
  BY DEF At, Shapes
<1> DEFINE t == Tail(todo[g])
<1>2. /\ t \in Seq(Step) /\ Shaped(t) /\ (NoQuiet(todo[g]) => NoQuiet(t))
      /\ \/ t = <<>> /\ what \in Lasts
         \/ t # <<>> /\ <<what, Head(t).do>> \in Pairs
      /\ what # "result" /\ (\E i \in 1 .. Len(todo[g]) : todo[g][i].do = "result") =>
           \E i \in 1 .. Len(t) : t[i].do = "result"
  BY <1>1, Rest DEF Made
<1>3. Made(g, t) /\ todo' = [todo EXCEPT ![g] = t]
  BY <1>1, <1>2 DEF Made, Advance
<1> HIDE DEF t
<1>4. /\ todo' \in [Goroutines -> Seq(Step)] /\ Shapes'
      /\ todo'[g] = t /\ \A h \in Goroutines : h # g => todo'[h] = todo[h]
  BY <1>3, Given
<1>5. \/ Idle(g)' /\ what \in Lasts
      \/ \E next \in Dos : At(g, next)' /\ <<what, next>> \in Pairs
  <2>1. CASE t = <<>>
    BY <1>2, <1>4, <2>1 DEF Idle
  <2>2. CASE t # <<>>
    <3>1. <<what, Head(t).do>> \in Pairs
      BY <1>2, <2>2
    <3>2. Head(t).do \in Dos
      BY <3>1 DEF Pairs, Dos
    <3>3. PICK next \in Dos : next = Head(t).do
      BY <3>2
    <3>4. todo'[g] # <<>> /\ Head(todo'[g]).do = next
      BY <1>4, <2>2, <3>3
    <3>5. At(g, next)'
      BY <3>4 DEF At
    <3>6. <<what, next>> \in Pairs
      BY <3>1, <3>3
    <3> QED BY <3>5, <3>6
  <2> QED BY <2>1, <2>2
<1>6. what # "result" /\ Waits("caller") => Waits("caller")'
  <2> SUFFICES ASSUME what # "result", Waits("caller") PROVE Waits("caller")'
    OBVIOUS
  <2>1. CASE g = "caller"
    BY <1>2, <1>4, <2>1 DEF Waits
  <2>2. CASE g # "caller"
    BY <1>4, <2>2 DEF Waits, Goroutines
  <2> QED BY <2>1, <2>2
<1> QED BY <1>4, <1>5, <1>6

LEMMA OneHead ==
  ASSUME NEW g \in Goroutines, NEW a, NEW b, At(g, a)
  PROVE  (At(g, b) => a = b) /\ ~Idle(g)
  BY DEF At, Idle
-----------------------------------------------------------------------------
(* The types.                                                               *)

LEMMA AgesType ==
  ASSUME TypeOK, Ages PROVE seen' \in [Goroutines -> Presence]
<1>1. \A p \in Presence : [p EXCEPT !.age = @ + 1] \in Presence
  BY DEF Presence
<1> QED BY <1>1 DEF TypeOK, Ages

LEMMA TriedType ==
  ASSUME TypeOK, NEW g \in Goroutines, Tried(g) PROVE seen' \in [Goroutines -> Presence]
<1>1. NoPresence \in Presence
  BY DEF NoPresence, Presence
<1>2. \A p \in Presence : \A b \in BOOLEAN : [p EXCEPT !.late = b] \in Presence
  BY DEF Presence
<1>3. ASSUME NEW h \in Goroutines, h # g PROVE seen'[h] \in Presence
  <2>1. PICK b \in BOOLEAN : b = (seen[h].late \/ seen[h].age > seen[g].age)
    OBVIOUS
  <2>2. seen'[h] = [seen[h] EXCEPT !.late = (seen[h].late \/ seen[h].age > seen[g].age)]
    BY <1>3 DEF Tried
  <2>3. seen'[h] = [seen[h] EXCEPT !.late = b]
    BY <2>1, <2>2
  <2>4. seen[h] \in Presence
    BY DEF TypeOK
  <2> QED BY <1>2, <2>3, <2>4
<1>4. seen'[g] = NoPresence
  BY DEF Tried
<1>5. seen' = [h \in Goroutines |-> seen'[h]]
  BY DEF Tried
<1> QED BY <1>1, <1>3, <1>4, <1>5

LEMMA SeenType ==
  ASSUME TypeOK, Changes PROVE seen' \in [Goroutines -> Presence]
<1>1. ASSUME NEW g \in Goroutines, ReadState(g) PROVE seen' \in [Goroutines -> Presence]
  <2>1. [NoPresence EXCEPT !.state = server] \in Presence
    BY DEF TypeOK, NoPresence, Presence
  <2> QED BY <1>1, <2>1 DEF ReadState, TypeOK
<1>2. ASSUME NEW g \in Goroutines, ReadPlayers(g) PROVE seen' \in [Goroutines -> Presence]
  <2>1. \A p \in Presence : [p EXCEPT !.players = online] \in Presence
    BY DEF TypeOK, Presence
  <2>2. seen' = [seen EXCEPT ![g] = [seen[g] EXCEPT !.players = online]]
    BY <1>2 DEF ReadPlayers, TypeOK
  <2> QED BY <2>1, <2>2 DEF TypeOK
<1>3. ASSUME NEW g \in Goroutines, Edit(g) \/ Post(g) PROVE seen' \in [Goroutines -> Presence]
  BY <1>3, TriedType DEF Edit, Post, Show
<1>4. CASE seen' = seen
  BY <1>4 DEF TypeOK
<1> QED BY <1>1, <1>2, <1>3, <1>4, AgesType DEF Changes

LEMMA TurnsType ==
  ASSUME TypeOK, Changes PROVE turns' \in 0 .. MaxTurns /\ turns' >= turns
  BY TurnsAssumption DEF TypeOK, Changes, Turn

LEMMA LinesType ==
  ASSUME TypeOK, Changes PROVE lines' \in Seq(Line) /\ Len(lines') <= turns'
<1>1. lines \in Seq(Line) /\ Len(lines) \in Nat /\ Len(lines) <= turns /\ turns \in Nat
  BY TurnsAssumption, LenProperties DEF TypeOK
<1>2. turns' \in Nat /\ turns' >= turns
  BY TurnsAssumption, TurnsType
<1>3. CASE lines' = lines
  BY <1>1, <1>2, <1>3
<1>4. CASE LogLine
  <2>1. PICK line \in Line : lines' = Append(lines, line)
    BY <1>4 DEF LogLine
  <2>2. lines' \in Seq(Line) /\ Len(lines') = Len(lines) + 1
    BY <1>1, <2>1, AppendProperties
  <2>3. turns' = turns + 1
    BY <1>4 DEF LogLine, Turn
  <2> QED BY <1>1, <2>2, <2>3
<1>5. CASE ProcessLine
  <2>1. lines # <<>> /\ lines' = Tail(lines)
    BY <1>5 DEF ProcessLine
  <2>2. lines' \in Seq(Line) /\ Len(lines') = Len(lines) - 1
    BY <1>1, <2>1, HeadTailProperties
  <2> QED BY <1>1, <1>2, <2>2
<1> QED BY <1>3, <1>4, <1>5 DEF Changes

LEMMA ToState ==
  ASSUME TypeOK, NEW g \in Goroutines, NEW what \in {"set", "notify", "quiet"}, At(g, what)
  PROVE  Head(todo[g]).to \in States
  BY HeadStep, Steps

LEMMA EventsType ==
  ASSUME TypeOK, Changes PROVE events' \in Seq(States) /\ Len(events') <= Capacity
<1>1. events \in Seq(States) /\ Len(events) \in Nat /\ Len(events) <= Capacity /\ Capacity \in Nat
  BY CapacityAssumption, LenProperties DEF TypeOK
<1>2. CASE events' = events
  BY <1>1, <1>2
<1>3. CASE HandleEvent
  <2>1. events # <<>> /\ events' = Tail(events)
    BY <1>3 DEF HandleEvent
  <2>2. events' \in Seq(States) /\ Len(events') = Len(events) - 1
    BY <1>1, <2>1, HeadTailProperties
  <2> QED BY <1>1, <2>2
<1>4. ASSUME NEW g \in Goroutines, NotifyStateChange(g)
      PROVE  events' \in Seq(States) /\ Len(events') <= Capacity
  <2>1. CASE events' = events
    BY <1>1, <2>1
  <2>2. CASE Len(events) < Capacity /\ events' = Append(events, Head(todo[g]).to)
    <3>1. Head(todo[g]).to \in States
      BY <1>4, ToState DEF NotifyStateChange
    <3>2. events' \in Seq(States) /\ Len(events') = Len(events) + 1
      BY <1>1, <2>2, <3>1, AppendProperties
    <3> QED BY <1>1, <2>2, <3>2
  <2> QED BY <1>4, <2>1, <2>2 DEF NotifyStateChange
<1> QED BY <1>2, <1>3, <1>4 DEF Changes

LEMMA ServerType ==
  ASSUME TypeOK, Changes PROVE server' \in States /\ online' \subseteq Players
<1>1. server' \in States
  <2>1. CASE server' = server
    BY <2>1 DEF TypeOK
  <2>2. CASE \E button \in BOOLEAN : Command(button)
    BY <2>2 DEF Command, States
  <2>3. ASSUME NEW g \in Goroutines, SetState(g) \/ SetError(g) PROVE server' \in States
    BY <2>3, ToState DEF SetState, SetError
  <2> QED BY <2>1, <2>2, <2>3 DEF Changes
<1>2. online' \subseteq Players
  <2>1. CASE ProcessLine
    <3>1. Head(lines) \in Line
      BY <2>1, HeadTailProperties DEF ProcessLine, TypeOK
    <3> QED BY <2>1, <3>1 DEF ProcessLine, TypeOK, Line
  <2> QED BY <2>1 DEF Changes, Clear, TypeOK
<1> QED BY <1>1, <1>2

ShownType == [state : States \cup {"nothing", "offline"}, players : SUBSET Players]

LEMMA ShownIsType ==
  ASSUME TypeOK, Changes PROVE shown' \in ShownType
<1>1. ASSUME NEW g \in Goroutines, Show(g) PROVE shown' \in ShownType
  <2>1. seen[g].state \in States \cup {"nothing"} /\ seen[g].players \in SUBSET Players
    BY DEF TypeOK, Presence
  <2> QED BY <1>1, <2>1 DEF Show, ShownType
<1>2. shown \in ShownType
  BY DEF TypeOK, ShownType
<1>3. Offline \in ShownType
  BY DEF Offline, ShownType
<1>4. ASSUME NEW g \in Goroutines, Edit(g) \/ Post(g) PROVE shown' = shown \/ Show(g)
  BY <1>4 DEF Edit, Post
<1> QED BY <1>1, <1>2, <1>3, <1>4 DEF Changes

LEMMA TypeStep ==
  ASSUME TypeOK, Changes, todo' \in [Goroutines -> Seq(Step)] PROVE TypeOK'
<1>1. main' \in {"run", "offline", "flagged", "watchers", "stopping", "worker", "done"}
  BY DEF Changes, UpdateToOffline, Shutdown, StopWatchers, TypeOK
<1>2. overtaken' \in BOOLEAN
  <2>1. overtaken \in BOOLEAN /\ \A g \in Goroutines : seen[g].late \in BOOLEAN
    BY DEF TypeOK, Presence
  <2> QED BY <2>1 DEF Changes
<1>3. failed' \in BOOLEAN /\ silent' \in BOOLEAN
  <2>1. failed \in BOOLEAN /\ silent \in BOOLEAN
    BY DEF TypeOK
  <2> QED BY <2>1 DEF Changes
<1>4. shown' \in [state : States \cup {"nothing", "offline"}, players : SUBSET Players]
  BY ShownIsType DEF ShownType
<1>5. {overtaken', failed', silent'} \subseteq BOOLEAN
  BY <1>2, <1>3
<1>6. watching' \in {"off", "on", "late"}
  BY DEF Changes, TypeOK
<1>7. revived' \in BOOLEAN
  <2>1. revived \in BOOLEAN
    BY DEF TypeOK
  <2>2. Ready => revived' = (revived \/ main \in {"stopping", "worker", "done"})
    BY DEF Ready
  <2> QED BY <2>1, <2>2 DEF Changes
<1> QED
  BY <1>1, <1>4, <1>5, <1>6, <1>7, ServerType, LinesType, EventsType, SeenType, TurnsType DEF TypeOK
-----------------------------------------------------------------------------
(* What a step leaves of what was known and carried.                        *)

Keeps == todo' \in [Goroutines -> Seq(Step)] /\ Shapes' /\ Presences' /\ Carried'

LEMMA KnownStays ==
  ASSUME NEW g \in Goroutines, Known(g), todo'[g] = todo[g],
         seen'[g].state = seen[g].state, seen'[g].players = seen[g].players,
         seen'[g].age = seen[g].age, server' = server, online' = online
  PROVE  Known(g)'
  BY DEF Known, At

LEMMA KnownAges ==
  ASSUME TypeOK, NEW g \in Goroutines, Known(g), todo'[g] = todo[g], Ages
  PROVE  Known(g)'
<1> SUFFICES ASSUME At(g, "players") \/ At(g, "edit") \/ At(g, "post") PROVE Known(g)'
  BY DEF Known, At
<1>1. seen[g] \in Presence /\ seen[g].state \in States
  BY DEF TypeOK, Known
<1>2. seen[g] # NoPresence
  BY <1>1 DEF NoPresence, States
<1>3. seen'[g] = [seen[g] EXCEPT !.age = seen[g].age + 1]
  BY <1>2 DEF Ages
<1>4. seen[g].age \in Nat /\ seen'[g].age = seen[g].age + 1 /\ seen'[g].state = seen[g].state
  BY <1>1, <1>3 DEF Presence
<1>5. seen'[g].age # 0
  BY <1>4
<1> QED BY <1>1, <1>4, <1>5 DEF Known

LEMMA KnownNot ==
  ASSUME NEW g \in Goroutines,
         \/ Idle(g)'
         \/ \E what \in Dos \ {"players", "edit", "post"} : At(g, what)'
  PROVE  Known(g)'
  BY DEF Known, At, Idle

\* Nobody who was to tell has moved.
LEMMA CarriedStays ==
  ASSUME TypeOK, Carried, NEW g \in Goroutines, main' = main,
         UNCHANGED <<server, online, events, seen, shown, overtaken, failed, silent>>,
         \A h \in Goroutines : h # g => todo'[h] = todo[h],
         \A what \in {"state", "notify", "players", "edit", "post"} : ~At(g, what),
         g = "op" => ~Idle("op") \/ Idle("op")',
         g = "caller" => ~Waits("caller")
  PROVE  Carried'
<1> SUFFICES ASSUME main = "run", ~silent, Told PROVE Told'
  BY DEF Carried, Newest, Truth
<1>1. CASE events # <<>>
  BY <1>1 DEF Told
<1>2. ASSUME NEW h \in Goroutines, At(h, "state") \/ At(h, "notify") \/ Fresh(h) PROVE Told'
  <2>1. h # g
    BY <1>2 DEF Fresh
  <2>2. todo'[h] = todo[h]
    BY <2>1
  <2>3. At(h, "state")' \/ At(h, "notify")' \/ Fresh(h)'
    BY <1>2, <2>2 DEF At, Fresh
  <2> QED BY <2>3 DEF Told
<1>3. CASE Idle("op") /\ Waits("caller")
  <2>1. g # "caller"
    BY <1>3
  <2>2. Waits("caller")'
    BY <1>3, <2>1 DEF Waits, Goroutines
  <2>3. Idle("op")'
    BY <1>3 DEF Idle, Goroutines
  <2> QED BY <2>2, <2>3 DEF Told
<1> QED BY <1>1, <1>2, <1>3 DEF Told

LEMMA StillStep ==
  ASSUME TypeOK, Shapes, Presences, Carried,
         UNCHANGED <<server, online, events, todo, seen, shown, main, overtaken, failed, silent>>
  PROVE  Keeps
<1>1. todo' \in [Goroutines -> Seq(Step)] /\ Shapes'
  BY DEF TypeOK, Shapes
<1>2. Presences'
  BY KnownStays DEF Presences
<1>3. Carried'
  BY DEF Carried, Newest, Truth, Told, At, Fresh, Idle, Waits
<1> QED BY <1>1, <1>2, <1>3 DEF Keeps

\* One goroutine moves and nothing is read, shown or changed.
LEMMA KnownStaysAll ==
  ASSUME TypeOK, Presences, NEW g \in Goroutines, Known(g)',
         \A h \in Goroutines : h # g => todo'[h] = todo[h],
         UNCHANGED <<server, online, seen>>
  PROVE  Presences'
<1>1. ASSUME NEW h \in Goroutines, h # g PROVE Known(h)'
  BY <1>1, KnownStays DEF Presences
<1> QED BY <1>1 DEF Presences

LEMMA KnownAgesAll ==
  ASSUME TypeOK, Presences, NEW g \in Goroutines, Known(g)',
         \A h \in Goroutines : h # g => todo'[h] = todo[h], Ages
  PROVE  Presences'
<1>1. ASSUME NEW h \in Goroutines, h # g PROVE Known(h)'
  BY <1>1, KnownAges DEF Presences
<1> QED BY <1>1 DEF Presences

LEMMA ToTell ==
  ASSUME NEW g \in Goroutines, At(g, "state")' \/ At(g, "notify")' PROVE Carried'
  BY DEF Carried, Told
-----------------------------------------------------------------------------
(* The steps, one by one.                                                   *)

LEMMA NoticeStep ==
  ASSUME TypeOK, Shapes, Presences, Carried, Notice PROVE Keeps
<1>1. PICK s \in States : Go("watcher", Transition(s))
  BY DEF Notice
<1> DEFINE g == "watcher"
           q == Transition(s)
<1>2. g \in Goroutines /\ Idle(g) /\ todo' = [todo EXCEPT ![g] = q]
  BY <1>1 DEF Go, Goroutines
<1>3. Made(g, q) /\ q # <<>> /\ Head(q).do \in {"clear", "set"}
  BY TransitionMade DEF Made
<1> HIDE DEF q
<1>4. /\ todo' \in [Goroutines -> Seq(Step)] /\ Shapes'
      /\ todo'[g] = q /\ \A h \in Goroutines : h # g => todo'[h] = todo[h]
  BY <1>2, <1>3, Given
<1>5. At(g, "clear")' \/ At(g, "set")'
  BY <1>3, <1>4 DEF At
<1>6. Known(g)'
  BY <1>2, <1>5, KnownNot DEF Dos
<1>7. Presences'
  BY <1>2, <1>4, <1>6, KnownStaysAll DEF Notice
<1>8. \A what \in {"state", "notify", "players", "edit", "post"} : ~At(g, what)
  BY <1>2 DEF At, Idle
<1>9. Carried'
  BY <1>2, <1>4, <1>8, CarriedStays DEF Notice, outcome
<1> QED BY <1>4, <1>7, <1>9 DEF Keeps

LEMMA ReadyStep ==
  ASSUME TypeOK, Shapes, Presences, Carried, Ready PROVE Keeps
<1> DEFINE g == "ready"
<1>1. g \in Goroutines /\ Idle(g) /\ todo' = [todo EXCEPT ![g] = OnReady]
  BY DEF Ready, Go, Goroutines
<1>2. Made(g, OnReady) /\ OnReady # <<>> /\ Head(OnReady).do = "sync"
  BY OnReadyMade DEF Made
<1>3. /\ todo' \in [Goroutines -> Seq(Step)] /\ Shapes'
      /\ todo'[g] = OnReady /\ \A h \in Goroutines : h # g => todo'[h] = todo[h]
  BY <1>1, <1>2, Given
<1>4. At(g, "sync")'
  BY <1>2, <1>3 DEF At
<1>5. Known(g)'
  BY <1>1, <1>4, KnownNot DEF Dos
<1>6. Presences'
  BY <1>1, <1>3, <1>5, KnownStaysAll DEF Ready
<1>7. \A what \in {"state", "notify", "players", "edit", "post"} : ~At(g, what)
  BY <1>1 DEF At, Idle
<1>8. Carried'
  BY <1>1, <1>3, <1>7, CarriedStays DEF Ready, outcome
<1> QED BY <1>3, <1>6, <1>8 DEF Keeps

\* SyncState puts its transition, if any, before the rest of the handler.
LEMMA SyncStateStep ==
  ASSUME TypeOK, Shapes, Presences, Carried, SyncState PROVE Keeps
<1> DEFINE g == "ready"
           t == Tail(todo[g])
<1>0. g \in Goroutines
  BY DEF Goroutines
<1>1. PICK steps \in {<<>>} \cup {Transition(s) : s \in Synchronised} :
        todo' = [todo EXCEPT ![g] = steps \o t]
  BY DEF SyncState
<1> DEFINE q == steps \o t
<1>2. todo[g] # <<>> /\ Head(todo[g]).do = "sync" /\ Made(g, todo[g])
  BY <1>0 DEF SyncState, At, Shapes
<1>3. /\ t \in Seq(Step) /\ Shaped(t) /\ (NoQuiet(todo[g]) => NoQuiet(t))
      /\ t # <<>> /\ Head(t).do = "watch"
  BY <1>0, <1>2, Rest DEF Made, Lasts, Pairs
<1> HIDE DEF t
<1>4. /\ q \in Seq(Step) /\ q # <<>> /\ Shaped(q) /\ (NoQuiet(t) => NoQuiet(q))
      /\ Head(q).do \in {"watch", "clear", "set"}
  <2>1. CASE steps = <<>>
    <3>1. q = t
      BY <1>3, <2>1, ConcatEmptySeq
    <3> QED BY <1>3, <3>1
  <2>2. ASSUME NEW s \in Synchronised, steps = Transition(s)
        PROVE  /\ q \in Seq(Step) /\ q # <<>> /\ Shaped(q) /\ (NoQuiet(t) => NoQuiet(q))
               /\ Head(q).do \in {"clear", "set"}
    <3>1. s \in States
      BY DEF Synchronised
    <3>2. /\ steps \in Seq(Step) /\ steps # <<>> /\ Shaped(steps) /\ NoQuiet(steps)
          /\ steps[Len(steps)].do = "notify" /\ Head(steps).do \in {"clear", "set"}
      BY <2>2, <3>1, TransitionMade
    <3>3. <<"notify", "watch">> \in Pairs
      BY DEF Pairs
    <3> QED BY <1>3, <3>2, <3>3, Joined DEF Shaped
  <2> QED BY <2>1, <2>2
<1>5. todo' = [todo EXCEPT ![g] = q]
  BY <1>1
<1> HIDE DEF q
<1>6. Made(g, q)
  BY <1>2, <1>3, <1>4 DEF Made
<1>7. /\ todo' \in [Goroutines -> Seq(Step)] /\ Shapes'
      /\ todo'[g] = q /\ \A h \in Goroutines : h # g => todo'[h] = todo[h]
  BY <1>0, <1>5, <1>6, Given
<1>8. \E what \in {"watch", "clear", "set"} : At(g, what)'
  BY <1>4, <1>7 DEF At
<1>9. Known(g)'
  BY <1>0, <1>8, KnownNot DEF Dos
<1>10. Presences'
  BY <1>0, <1>7, <1>9, KnownStaysAll DEF SyncState
<1>11. \A what \in {"state", "notify", "players", "edit", "post"} : ~At(g, what)
  BY <1>2 DEF At
<1>12. ~Idle(g)
  BY <1>2 DEF Idle
<1>13. Carried'
  BY <1>0, <1>7, <1>11, <1>12, CarriedStays DEF SyncState, outcome
<1> QED BY <1>7, <1>10, <1>13 DEF Keeps

LEMMA StartWatchersStep ==
  ASSUME TypeOK, Shapes, Presences, Carried, StartWatchers PROVE Keeps
<1> DEFINE g == "ready"
<1>0. g \in Goroutines
  BY DEF Goroutines
<1>1. /\ todo' \in [Goroutines -> Seq(Step)] /\ Shapes'
      /\ \A h \in Goroutines : h # g => todo'[h] = todo[h]
      /\ \/ Idle(g)' /\ "watch" \in Lasts
         \/ \E next \in Dos : At(g, next)' /\ <<"watch", next>> \in Pairs
  BY <1>0, Advances DEF StartWatchers
<1>2. At(g, "state")'
  BY <1>1 DEF Lasts, Pairs
<1>3. Known(g)' /\ Carried'
  BY <1>0, <1>2, KnownNot, ToTell DEF Dos
<1>4. Presences'
  BY <1>0, <1>1, <1>3, KnownStaysAll DEF StartWatchers
<1> QED BY <1>1, <1>3, <1>4 DEF Keeps

LEMMA CommandStep ==
  ASSUME TypeOK, Shapes, Presences, Carried, NEW button \in BOOLEAN, Command(button)
  PROVE  Keeps
<1> DEFINE q == (IF button THEN Update ELSE <<>>) \o <<Do("result")>> \o Update
<1>1. server' \in States
  BY DEF Command, States
<1>2. PICK end \in Ends(server') : todo' = [todo EXCEPT !["op"] = end, !["caller"] = q]
  BY DEF Command
<1>3. /\ end \in Seq(Step) /\ end # <<>> /\ Shaped(end)
      /\ Head(end).do \in {"clear", "set", "quiet"}
  <2>1. PICK s \in States : s = server'
    BY <1>1
  <2>2. end \in Ends(s)
    BY <1>2, <2>1
  <2> QED BY <2>2, EndsMade
<1>4. /\ q \in Seq(Step) /\ q # <<>> /\ Shaped(q) /\ NoQuiet(q)
      /\ Head(q).do = IF button THEN "state" ELSE "result"
  BY CallerMade
<1> HIDE DEF q
<1>5. /\ todo'["op"] = end /\ todo'["caller"] = q
      /\ \A h \in Goroutines \ {"op", "caller"} : todo'[h] = todo[h]
      /\ todo' \in [Goroutines -> Seq(Step)]
  BY <1>2, <1>3, <1>4 DEF TypeOK, Goroutines
<1>6. Shapes'
  BY <1>3, <1>4, <1>5 DEF Shapes, Made
<1>7. At("op", "clear")' \/ At("op", "set")' \/ At("op", "quiet")'
  BY <1>3, <1>5 DEF At
<1>8. IF button THEN At("caller", "state")' ELSE At("caller", "result")'
  BY <1>4, <1>5 DEF At
<1>9. "op" \in Goroutines /\ "caller" \in Goroutines
  BY DEF Goroutines
<1>10. Known("op")' /\ Known("caller")'
  BY <1>7, <1>8, <1>9, KnownNot DEF Dos
<1>11. ASSUME NEW h \in Goroutines \ {"op", "caller"} PROVE Known(h)'
  BY <1>5, KnownAges DEF Presences, Command
<1>12. Presences'
  BY <1>10, <1>11 DEF Presences
<1>13. Carried'
  <2>1. CASE button
    BY <1>8, <1>9, <2>1, ToTell
  <2>2. CASE ~button
    BY <2>2 DEF Command, Carried
  <2> QED BY <2>1, <2>2
<1> QED BY <1>5, <1>6, <1>12, <1>13 DEF Keeps

\* A goroutine that is told goes and updates.
LEMMA UpdateGiven ==
  ASSUME TypeOK, Shapes, NEW g \in Goroutines, Go(g, Update)
  PROVE  /\ todo' \in [Goroutines -> Seq(Step)] /\ Shapes' /\ Known(g)' /\ Carried'
         /\ \A h \in Goroutines : h # g => todo'[h] = todo[h]
<1>1. Made(g, Update) /\ todo' = [todo EXCEPT ![g] = Update]
  BY UpdateMade DEF Made, Go
<1>2. /\ todo' \in [Goroutines -> Seq(Step)] /\ Shapes'
      /\ todo'[g] = Update /\ \A h \in Goroutines : h # g => todo'[h] = todo[h]
  BY <1>1, Given
<1>3. At(g, "state")'
  BY <1>2, UpdateMade DEF At
<1>4. Known(g)' /\ Carried'
  BY <1>3, KnownNot, ToTell DEF Dos
<1> QED BY <1>2, <1>4

LEMMA HandleEventStep ==
  ASSUME TypeOK, Shapes, Presences, Carried, HandleEvent PROVE Keeps
<1>1. "worker" \in Goroutines
  BY DEF Goroutines
<1>2. CASE ~NoCallback
  <2>1. Go("worker", Update)
    BY <1>2 DEF HandleEvent
  <2>2. Presences'
    BY <1>1, <2>1, UpdateGiven, KnownStaysAll DEF HandleEvent
  <2> QED BY <1>1, <2>1, <2>2, UpdateGiven DEF Keeps
<1>3. CASE NoCallback
  <2>1. todo' = todo
    BY <1>1, <1>3 DEF HandleEvent, Go, Idle, TypeOK
  <2>2. main' # "run"
    BY <1>3 DEF HandleEvent, NoCallback
  <2>3. todo' \in [Goroutines -> Seq(Step)] /\ Shapes'
    BY <2>1 DEF TypeOK, Shapes
  <2>4. Presences'
    BY <2>1, KnownStays DEF Presences, HandleEvent
  <2> QED BY <2>2, <2>3, <2>4 DEF Keeps, Carried
<1> QED BY <1>2, <1>3

LEMMA ProcessLineStep ==
  ASSUME TypeOK, Shapes, Presences, Carried, ProcessLine PROVE Keeps
<1>1. "tracker" \in Goroutines /\ Go("tracker", Update)
  BY DEF Goroutines, ProcessLine
<1>2. Presences'
  BY <1>1, UpdateGiven, KnownAgesAll DEF ProcessLine
<1> QED BY <1>1, <1>2, UpdateGiven DEF Keeps

LEMMA InterruptedStep ==
  ASSUME TypeOK, Shapes, Presences, Carried, NEW g \in Goroutines, Interrupted(g) PROVE Keeps
<1>1. PICK what \in {"clear", "set", "quiet"} : At(g, what)
  BY DEF Interrupted
<1>2. <<>> \in Seq(Step) /\ Len(<<>>) = 0
  BY EmptySeq
<1>3. Made(g, <<>>)
  BY <1>2 DEF Made, Shaped, Chained, NoQuiet
<1>4. /\ todo' \in [Goroutines -> Seq(Step)] /\ Shapes'
      /\ todo'[g] = <<>> /\ \A h \in Goroutines : h # g => todo'[h] = todo[h]
  BY <1>3, Given DEF Interrupted
<1>5. Idle(g)' /\ Known(g)'
  BY <1>4, KnownNot DEF Idle
<1>6. Presences'
  BY <1>4, <1>5, KnownStaysAll DEF Interrupted
<1>7. \A other \in {"state", "notify", "players", "edit", "post"} : ~At(g, other)
  BY <1>1 DEF At
<1>8. g = "op"
  BY DEF Interrupted, Overruled
<1>9. Carried'
  BY <1>4, <1>5, <1>7, <1>8, CarriedStays DEF Interrupted, outcome
<1> QED BY <1>4, <1>6, <1>9 DEF Keeps

LEMMA ClearStep ==
  ASSUME TypeOK, Shapes, Presences, Carried, NEW g \in Goroutines, Clear(g) PROVE Keeps
<1> DEFINE t == Tail(todo[g])
           q == Update \o t
<1>1. todo[g] # <<>> /\ Head(todo[g]).do = "clear" /\ Made(g, todo[g])
  BY DEF Clear, At, Shapes
<1>2. /\ t \in Seq(Step) /\ Shaped(t) /\ (NoQuiet(todo[g]) => NoQuiet(t))
      /\ t # <<>> /\ Head(t).do = "set"
  BY <1>1, Rest DEF Made, Lasts, Pairs
<1>3. <<"edit", "set">> \in Pairs
  BY DEF Pairs
<1>4. todo' = [todo EXCEPT ![g] = q]
  BY DEF Clear
<1> HIDE DEF t
<1>5. /\ q \in Seq(Step) /\ q # <<>> /\ Head(q).do = "state" /\ Shaped(q)
      /\ NoQuiet(t) => NoQuiet(q)
  BY <1>2, <1>3, UpdateMade, Joined DEF Shaped
<1> HIDE DEF q
<1>6. Made(g, q)
  BY <1>1, <1>2, <1>5 DEF Made
<1>7. /\ todo' \in [Goroutines -> Seq(Step)] /\ Shapes'
      /\ todo'[g] = q /\ \A h \in Goroutines : h # g => todo'[h] = todo[h]
  BY <1>4, <1>6, Given
<1>8. At(g, "state")'
  BY <1>5, <1>7 DEF At
<1>9. Known(g)' /\ Carried'
  BY <1>8, KnownNot, ToTell DEF Dos
<1>10. Presences'
  BY <1>7, <1>9, KnownAgesAll DEF Clear
<1> QED BY <1>7, <1>9, <1>10 DEF Keeps

LEMMA SetStateStep ==
  ASSUME TypeOK, Shapes, Presences, Carried, NEW g \in Goroutines, SetState(g) PROVE Keeps
<1>1. /\ todo' \in [Goroutines -> Seq(Step)] /\ Shapes'
      /\ \A h \in Goroutines : h # g => todo'[h] = todo[h]
      /\ \/ Idle(g)' /\ "set" \in Lasts
         \/ \E next \in Dos : At(g, next)' /\ <<"set", next>> \in Pairs
  BY Advances DEF SetState
<1>2. At(g, "notify")'
  BY <1>1 DEF Lasts, Pairs
<1>3. Known(g)' /\ Carried'
  BY <1>2, KnownNot, ToTell DEF Dos
<1>4. Presences'
  BY <1>1, <1>3, KnownAgesAll DEF SetState
<1> QED BY <1>1, <1>3, <1>4 DEF Keeps

LEMMA SetErrorStep ==
  ASSUME TypeOK, Shapes, Presences, Carried, NEW g \in Goroutines, SetError(g) PROVE Keeps
<1>1. /\ todo' \in [Goroutines -> Seq(Step)] /\ Shapes'
      /\ \A h \in Goroutines : h # g => todo'[h] = todo[h]
      /\ \/ Idle(g)' /\ "quiet" \in Lasts
         \/ \E next \in Dos : At(g, next)' /\ <<"quiet", next>> \in Pairs
  BY Advances DEF SetError
<1>2. Idle(g)'
  BY <1>1 DEF Pairs
<1>3. Known(g)'
  BY <1>2, KnownNot
<1>4. Presences'
  BY <1>1, <1>3, KnownAgesAll DEF SetError
<1>5. g = "op"
  <2>1. todo[g] \in Seq(Step) /\ todo[g] # <<>> /\ Head(todo[g]).do = "quiet"
    BY HeadStep DEF SetError
  <2>2. ~NoQuiet(todo[g])
    BY <2>1, EmptySeq DEF NoQuiet
  <2> QED BY <2>2 DEF Shapes, Made
<1>6. Waits("caller")' <=> Waits("caller")
  BY <1>1, <1>5 DEF Waits, Goroutines
<1>7. ASSUME Waits("caller") PROVE Carried'
  <2>1. Idle("op")'
    BY <1>2, <1>5 DEF Idle
  <2>2. Told'
    BY <1>6, <1>7, <2>1 DEF Told
  <2> QED BY <2>2 DEF Carried
<1>8. ASSUME ~Waits("caller") PROVE Carried'
  <2>1. silent' = ~Waits("caller")
    BY DEF SetError
  <2>2. silent'
    BY <1>8, <2>1
  <2> QED BY <2>2 DEF Carried
<1> QED BY <1>1, <1>4, <1>7, <1>8 DEF Keeps

LEMMA NotifyStep ==
  ASSUME TypeOK, Shapes, Presences, Carried, NEW g \in Goroutines, NotifyStateChange(g)
  PROVE  Keeps
<1>1. /\ todo' \in [Goroutines -> Seq(Step)] /\ Shapes'
      /\ \A h \in Goroutines : h # g => todo'[h] = todo[h]
      /\ \/ Idle(g)' /\ "notify" \in Lasts
         \/ \E next \in Dos : At(g, next)' /\ <<"notify", next>> \in Pairs
  BY Advances DEF NotifyStateChange
<1>2. Idle(g)' \/ At(g, "watch")'
  BY <1>1 DEF Pairs
<1>3. Known(g)'
  BY <1>2, KnownNot DEF Dos
<1>4. Presences'
  BY <1>1, <1>3, KnownStaysAll DEF NotifyStateChange
<1>5. ASSUME main = "run" PROVE events' # <<>>
  <2>1. events \in Seq(States) /\ Len(events) \in Nat /\ Capacity \in Nat \ {0}
    BY CapacityAssumption, LenProperties DEF TypeOK
  <2>2. CASE Len(events) < Capacity
    <3>1. Head(todo[g]).to \in States
      BY ToState DEF NotifyStateChange
    <3>2. events' = Append(events, Head(todo[g]).to)
      BY <1>5, <2>2 DEF NotifyStateChange
    <3>3. Len(events') = Len(events) + 1 /\ events' \in Seq(States)
      BY <2>1, <3>1, <3>2, AppendProperties
    <3> QED BY <2>1, <3>3, EmptySeq
  <2>3. CASE ~(Len(events) < Capacity)
    <3>1. events' = events /\ Len(events) # 0
      BY <2>1, <2>3 DEF NotifyStateChange
    <3> QED BY <2>1, <3>1, EmptySeq
  <2> QED BY <2>2, <2>3
<1>6. Carried'
  BY <1>5 DEF Carried, Told, NotifyStateChange
<1> QED BY <1>1, <1>4, <1>6 DEF Keeps

LEMMA ResultStep ==
  ASSUME TypeOK, Shapes, Presences, Carried, NEW g \in Goroutines, Result(g) PROVE Keeps
<1>1. /\ todo' \in [Goroutines -> Seq(Step)] /\ Shapes'
      /\ \A h \in Goroutines : h # g => todo'[h] = todo[h]
      /\ \/ Idle(g)' /\ "result" \in Lasts
         \/ \E next \in Dos : At(g, next)' /\ <<"result", next>> \in Pairs
  BY Advances DEF Result
<1>2. At(g, "state")'
  BY <1>1 DEF Lasts, Pairs
<1>3. Known(g)' /\ Carried'
  BY <1>2, KnownNot, ToTell DEF Dos
<1>4. Presences'
  BY <1>1, <1>3, KnownStaysAll DEF Result
<1> QED BY <1>1, <1>3, <1>4 DEF Keeps

LEMMA ReadStateStep ==
  ASSUME TypeOK, Shapes, Presences, Carried, NEW g \in Goroutines, ReadState(g) PROVE Keeps
<1>1. /\ todo' \in [Goroutines -> Seq(Step)] /\ Shapes'
      /\ \A h \in Goroutines : h # g => todo'[h] = todo[h]
      /\ \/ Idle(g)' /\ "state" \in Lasts
         \/ \E next \in Dos : At(g, next)' /\ <<"state", next>> \in Pairs
  BY Advances DEF ReadState
<1>2. At(g, "players")'
  BY <1>1 DEF Lasts, Pairs
<1>3. seen'[g].state = server /\ seen'[g].age = 0
  BY DEF ReadState, NoPresence, TypeOK
<1>4. server' = server /\ server \in States /\ online' = online
  BY DEF ReadState, TypeOK
<1>5. Known(g)'
  BY <1>2, <1>3, <1>4 DEF Known, At
<1>6. ASSUME NEW h \in Goroutines, h # g PROVE Known(h)'
  <2>1. seen'[h] = seen[h] /\ todo'[h] = todo[h]
    BY <1>1, <1>6 DEF ReadState, TypeOK
  <2> QED BY <1>4, <2>1, KnownStays DEF Presences
<1>7. Presences'
  BY <1>5, <1>6 DEF Presences
<1>8. Carried'
  BY <1>2, <1>3 DEF Carried, Told, Fresh
<1> QED BY <1>1, <1>7, <1>8 DEF Keeps

LEMMA ReadPlayersStep ==
  ASSUME TypeOK, Shapes, Presences, Carried, NEW g \in Goroutines, ReadPlayers(g) PROVE Keeps
<1> DEFINE what == "players"
<1>0. what # "result" /\ At(g, what) /\ Advance(g)
  BY DEF ReadPlayers
<1> HIDE DEF what
<1>1. /\ todo' \in [Goroutines -> Seq(Step)] /\ Shapes'
      /\ \A h \in Goroutines : h # g => todo'[h] = todo[h]
      /\ \/ Idle(g)' /\ what \in Lasts
         \/ \E next \in Dos : At(g, next)' /\ <<what, next>> \in Pairs
      /\ Waits("caller") => Waits("caller")'
  BY <1>0, Advances
<1>2. At(g, "edit")' \/ At(g, "post")'
  BY <1>1 DEF Lasts, Pairs, what
<1>3. /\ At(g, "players")
      /\ UNCHANGED <<server, online, events, shown, main, overtaken, failed, silent>>
  BY DEF ReadPlayers, outcome
<1>4. /\ seen'[g] = [seen[g] EXCEPT !.players = online] /\ seen[g] \in Presence
      /\ \A h \in Goroutines : h # g => seen'[h] = seen[h]
  BY DEF ReadPlayers, TypeOK
<1>5. /\ seen'[g].state = seen[g].state /\ seen'[g].age = seen[g].age
      /\ seen'[g].players = online /\ seen'[g].late = seen[g].late
  BY <1>4 DEF Presence
<1>6. Known(g)'
  BY <1>2, <1>3, <1>5 DEF Known, Presences, At
<1>7. ASSUME NEW h \in Goroutines, h # g PROVE Known(h)'
  BY <1>1, <1>3, <1>4, <1>7, KnownStays DEF Presences
<1>8. Presences'
  BY <1>6, <1>7 DEF Presences
<1>9. Carried'
  <2>1. CASE Newest
    BY <1>3, <1>4, <1>5, <2>1 DEF Carried, Newest, Truth
  <2>2. CASE events # <<>>
    BY <1>3, <2>2 DEF Carried, Told
  <2>3. ASSUME NEW h \in Goroutines, At(h, "state") \/ At(h, "notify") \/ Fresh(h)
        PROVE  Told'
    <3>1. CASE h = g
      <4>1. Fresh(g)
        BY <1>3, <2>3, <3>1 DEF At
      <4>2. Fresh(g)'
        BY <1>2, <1>5, <4>1 DEF Fresh
      <4> QED BY <4>2 DEF Told
    <3>2. CASE h # g
      <4>1. todo'[h] = todo[h] /\ seen'[h] = seen[h]
        BY <1>1, <1>4, <3>2
      <4>2. At(h, "state")' \/ At(h, "notify")' \/ Fresh(h)'
        BY <2>3, <4>1 DEF At, Fresh
      <4> QED BY <4>2 DEF Told
    <3> QED BY <3>1, <3>2
  <2>4. CASE Idle("op") /\ Waits("caller")
    <3>1. g # "op"
      BY <1>3, <2>4 DEF At, Idle
    <3>2. Idle("op")'
      BY <1>1, <2>4, <3>1 DEF Idle, Goroutines
    <3>3. Waits("caller")'
      BY <1>1, <2>4
    <3> QED BY <2>4, <3>2, <3>3 DEF Carried, Told
  <2> QED BY <1>3, <2>1, <2>2, <2>3, <2>4 DEF Carried, Told
<1> QED BY <1>1, <1>8, <1>9 DEF Keeps

\* A presence has its turn.
LEMMA TriedStep ==
  ASSUME TypeOK, Shapes, Presences, Carried, NEW g \in Goroutines,
         NEW what \in {"edit", "post"}, At(g, what), Advance(g), Tried(g),
         UNCHANGED <<server, online, events, main, silent>>,
         \/ shown' = [state |-> seen[g].state, players |-> seen[g].players]
         \/ shown' = Nothing
         \/ failed' = TRUE
  PROVE  Keeps
<1>0. what # "result"
  OBVIOUS
<1>1. /\ todo' \in [Goroutines -> Seq(Step)] /\ Shapes'
      /\ \A h \in Goroutines : h # g => todo'[h] = todo[h]
      /\ \/ Idle(g)' /\ what \in Lasts
         \/ \E next \in Dos : At(g, next)' /\ <<what, next>> \in Pairs
      /\ Waits("caller") => Waits("caller")'
  BY <1>0, Advances
<1>2. Idle(g)' \/ At(g, "result")' \/ At(g, "set")'
  BY <1>1 DEF Pairs
<1>3. Known(g)'
  BY <1>2, KnownNot DEF Dos
<1>4. /\ seen[g] \in Presence
      /\ seen'[g] = NoPresence
      /\ \A h \in Goroutines : h # g =>
           seen'[h] = [seen[h] EXCEPT !.late = (seen[h].late \/ seen[h].age > seen[g].age)]
  BY DEF Tried, TypeOK
<1>5. ASSUME NEW h \in Goroutines, h # g
      PROVE  /\ seen'[h].state = seen[h].state /\ seen'[h].players = seen[h].players
             /\ seen'[h].age = seen[h].age
             /\ seen'[h].late = (seen[h].late \/ seen[h].age > seen[g].age)
  <2>1. seen[h] \in Presence
    BY DEF TypeOK
  <2>2. PICK b \in BOOLEAN : b = (seen[h].late \/ seen[h].age > seen[g].age)
    OBVIOUS
  <2>3. seen'[h] = [seen[h] EXCEPT !.late = b]
    BY <1>4, <1>5, <2>2
  <2>4. \A p \in Presence : \A c \in BOOLEAN :
          /\ [p EXCEPT !.late = c].state = p.state /\ [p EXCEPT !.late = c].age = p.age
          /\ [p EXCEPT !.late = c].players = p.players /\ [p EXCEPT !.late = c].late = c
    BY DEF Presence
  <2>5. /\ seen'[h].state = seen[h].state /\ seen'[h].players = seen[h].players
        /\ seen'[h].age = seen[h].age /\ seen'[h].late = b
    BY <2>1, <2>3, <2>4
  <2> QED BY <2>2, <2>5
<1>6. seen'[g].age = 0
  BY <1>4 DEF NoPresence
<1>7. Presences'
  <2>1. ASSUME NEW h \in Goroutines, h # g PROVE Known(h)'
    BY <1>1, <1>5, <2>1, KnownStays DEF Presences
  <2> QED BY <1>3, <2>1 DEF Presences
<1>8. seen[g].age \in Nat
  BY <1>4 DEF Presence
<1>9. ASSUME seen[g].age = 0 PROVE Newest'
  <2>1. ASSUME NEW h \in Goroutines, seen'[h].age > 0 PROVE seen'[h].late
    <3>1. h # g
      BY <1>6, <2>1
    <3>2. seen[h].age > seen[g].age
      BY <1>5, <1>9, <2>1, <3>1
    <3> QED BY <1>5, <3>1, <3>2
  <2>2. seen[g].state = server /\ seen[g].players = online
    BY <1>9 DEF Presences, Known
  <2>3. Truth' = [state |-> server, players |-> online]
    BY DEF Truth
  <2>4. shown' = Nothing \/ failed' \/ shown' = Truth'
    BY <2>2, <2>3
  <2> QED BY <2>1, <2>4 DEF Newest, Nothing
<1>10. ASSUME seen[g].age # 0, Newest PROVE Newest'
  <2>1. seen[g].late
    BY <1>8, <1>10 DEF Newest
  <2>2. overtaken' = seen[g].late
    BY DEF Tried
  <2>3. overtaken'
    BY <2>1, <2>2
  <2>4. ASSUME NEW h \in Goroutines, seen'[h].age > 0 PROVE seen'[h].late
    <3>1. h # g
      BY <1>6, <2>4
    <3>2. seen[h].late
      BY <1>5, <1>10, <2>4, <3>1 DEF Newest
    <3> QED BY <1>5, <3>1, <3>2
  <2> QED BY <2>3, <2>4 DEF Newest
<1>11. ASSUME seen[g].age # 0, Told PROVE Told'
  <2>1. CASE events # <<>>
    BY <2>1 DEF Told
  <2>2. ASSUME NEW h \in Goroutines, At(h, "state") \/ At(h, "notify") \/ Fresh(h)
        PROVE  Told'
    <3>1. h # g
      BY <1>11, <2>2 DEF At, Fresh
    <3>2. todo'[h] = todo[h] /\ seen'[h].age = seen[h].age
      BY <1>1, <1>5, <3>1
    <3>3. At(h, "state")' \/ At(h, "notify")' \/ Fresh(h)'
      BY <2>2, <3>2 DEF At, Fresh
    <3> QED BY <3>3 DEF Told
  <2>3. CASE Idle("op") /\ Waits("caller")
    <3>1. g # "op"
      BY <2>3 DEF At, Idle
    <3>2. Idle("op")'
      BY <1>1, <2>3, <3>1 DEF Idle, Goroutines
    <3>3. Waits("caller")'
      BY <1>1, <2>3
    <3> QED BY <3>2, <3>3 DEF Told
  <2> QED BY <1>11, <2>1, <2>2, <2>3 DEF Told
<1>12. Carried'
  <2> SUFFICES ASSUME main = "run", ~silent PROVE Told' \/ Newest'
    BY DEF Carried
  <2>1. Told \/ Newest
    BY DEF Carried
  <2> QED BY <1>9, <1>10, <1>11, <2>1
<1> QED BY <1>1, <1>7, <1>12 DEF Keeps

LEMMA EditStep ==
  ASSUME TypeOK, Shapes, Presences, Carried, NEW g \in Goroutines, Edit(g) \/ Post(g)
  PROVE  Keeps
<1>1. CASE Edit(g)
  <2>1. At(g, "edit") /\ Advance(g) /\ UNCHANGED <<server, online, events, main, silent>>
    BY <1>1 DEF Edit
  <2>2. Tried(g)
    BY <1>1 DEF Edit, Show
  <2>3. \/ shown' = [state |-> seen[g].state, players |-> seen[g].players]
        \/ shown' = Nothing
        \/ failed' = TRUE
    BY <1>1 DEF Edit, Show
  <2> QED BY <2>1, <2>2, <2>3, TriedStep
<1>2. CASE Post(g)
  <2>1. At(g, "post") /\ Advance(g) /\ UNCHANGED <<server, online, events, main, silent>>
    BY <1>2 DEF Post
  <2>2. Tried(g)
    BY <1>2 DEF Post, Show
  <2>3. \/ shown' = [state |-> seen[g].state, players |-> seen[g].players]
        \/ failed' = TRUE
    BY <1>2 DEF Post, Show
  <2> QED BY <2>1, <2>2, <2>3, TriedStep
<1> QED BY <1>1, <1>2

\* With the shutdown the embed is out of the updates' hands.
LEMMA MainStep ==
  ASSUME TypeOK, Shapes, Presences, UpdateToOffline \/ Shutdown PROVE Keeps
<1>1. UNCHANGED <<server, online, todo, seen>> /\ main' # "run"
  BY DEF UpdateToOffline, Shutdown, StopWatchers
<1>2. todo' \in [Goroutines -> Seq(Step)] /\ Shapes'
  BY <1>1 DEF TypeOK, Shapes
<1>3. Presences'
  BY <1>1, KnownStays DEF Presences
<1> QED BY <1>1, <1>2, <1>3 DEF Keeps, Carried

LEMMA KeepsStep ==
  ASSUME TypeOK, Shapes, Presences, Carried, [Next]_vars PROVE Keeps
<1>1. CASE UNCHANGED vars
  BY <1>1, StillStep DEF vars
<1>2. CASE Notice
  BY <1>2, NoticeStep
<1>3. ASSUME NEW button \in BOOLEAN, Command(button) PROVE Keeps
  BY <1>3, CommandStep
<1>4. CASE LogLine
  BY <1>4, StillStep DEF LogLine, outcome
<1>5. CASE HandleEvent
  BY <1>5, HandleEventStep
<1>6. CASE ProcessLine
  BY <1>6, ProcessLineStep
<1>7. ASSUME NEW g \in Goroutines, Goroutine(g) PROVE Keeps
  BY <1>7, InterruptedStep, ClearStep, SetStateStep, SetErrorStep, NotifyStep, ResultStep,
     ReadStateStep, ReadPlayersStep, EditStep DEF Goroutine
<1>8. CASE UpdateToOffline \/ Shutdown
  BY <1>8, MainStep
<1>9. CASE Ready \/ SyncState \/ StartWatchers
  BY <1>9, ReadyStep, SyncStateStep, StartWatchersStep
<1> QED BY <1>1, <1>2, <1>3, <1>4, <1>5, <1>6, <1>7, <1>8, <1>9 DEF Next
-----------------------------------------------------------------------------
(* Who has ended.                                                           *)

\* Only its own steps, and what sets it to work, move the worker, the tracker and
\* the watchers.
Enders == {"worker", "tracker", "watcher"}

Rests(g) ==
  /\ Idle(g)
  /\ g = "watcher" => watching = "off"
  /\ g = "worker" => NoCallback
  /\ g = "tracker" => main = "done"

LEMMA WhoRests ==
  ASSUME TypeOK, [Next]_vars, NEW g \in Enders, Rests(g)
  PROVE  todo'[g] = todo[g]
<1>0. g \in Goroutines /\ g \notin {"ready", "op", "caller"}
  BY DEF Enders, Goroutines
<1>1. CASE UNCHANGED vars
  BY <1>1 DEF vars
<1>2. CASE Notice
  <2>1. g # "watcher"
    BY <1>2 DEF Notice, Rests
  <2> QED BY <1>0, <1>2, <2>1 DEF Notice, Go, TypeOK
<1>3. CASE \E button \in BOOLEAN : Command(button)
  BY <1>0, <1>3 DEF Command, TypeOK
<1>4. CASE LogLine
  BY <1>4 DEF LogLine
<1>5. CASE HandleEvent
  <2>1. CASE g = "worker"
    BY <1>0, <1>5, <2>1 DEF HandleEvent, Go, Idle, Rests, TypeOK
  <2>2. CASE g # "worker"
    BY <1>0, <1>5, <2>2 DEF HandleEvent, Go, TypeOK
  <2> QED BY <2>1, <2>2
<1>6. CASE ProcessLine
  <2>1. g # "tracker"
    BY <1>6 DEF ProcessLine, Rests
  <2> QED BY <1>0, <1>6, <2>1 DEF ProcessLine, Go, TypeOK
<1>7. ASSUME NEW h \in Goroutines, Goroutine(h) PROVE todo'[g] = todo[g]
  <2>1. ~Idle(h)
    BY <1>7 DEF Goroutine, Interrupted, Clear, SetState, SetError, NotifyStateChange,
                Result, ReadState, ReadPlayers, Edit, Post, At, Idle
  <2>2. \/ todo' = [todo EXCEPT ![h] = <<>>]
        \/ todo' = [todo EXCEPT ![h] = Update \o Tail(todo[h])]
        \/ todo' = [todo EXCEPT ![h] = Tail(todo[h])]
    BY <1>7 DEF Goroutine, Interrupted, Clear, SetState, SetError, NotifyStateChange,
                Result, ReadState, ReadPlayers, Edit, Post, Advance
  <2>3. h # g
    BY <2>1 DEF Rests
  <2> QED BY <1>0, <2>2, <2>3 DEF TypeOK
<1>8. CASE UpdateToOffline \/ Shutdown
  BY <1>8 DEF UpdateToOffline, Shutdown
<1>9. CASE Ready \/ SyncState \/ StartWatchers
  BY <1>0, <1>9 DEF Ready, SyncState, StartWatchers, Go, Advance, TypeOK
<1> QED BY <1>1, <1>2, <1>3, <1>4, <1>5, <1>6, <1>7, <1>8, <1>9 DEF Next

\* Once Shutdown has ended the watchers, only a late Ready starts any.
LEMMA WatchingStays ==
  ASSUME TypeOK, [Next]_vars, main' = main,
         main \in {"watchers", "stopping", "worker", "done"}
  PROVE  watching' = watching \/ watching' = "late"
<1>1. CASE UNCHANGED vars
  BY <1>1 DEF vars
<1>2. CASE \/ Ready \/ Notice \/ (\E button \in BOOLEAN : Command(button)) \/ LogLine
           \/ HandleEvent \/ ProcessLine \/ SyncState
  BY <1>2 DEF Ready, Notice, Command, LogLine, HandleEvent, ProcessLine, SyncState, guards
<1>3. ASSUME NEW g \in Goroutines, Goroutine(g) PROVE watching' = watching
  BY <1>3 DEF Goroutine, Interrupted, Clear, SetState, SetError, NotifyStateChange,
              Result, ReadState, ReadPlayers, Edit, Post, guards
<1>4. CASE UpdateToOffline \/ Shutdown
  BY <1>4 DEF UpdateToOffline, Shutdown, StopWatchers, guards
<1>5. CASE StartWatchers
  BY <1>5 DEF StartWatchers
<1> QED BY <1>1, <1>2, <1>3, <1>4, <1>5 DEF Next

LEMMA EndedStep ==
  ASSUME TypeOK, Ended, [Next]_vars PROVE Ended'
<1>1. CASE main' = main
  <2>1. ASSUME NEW g \in Enders, Rests(g) PROVE Idle(g)'
    BY <2>1, WhoRests DEF Rests, Idle
  <2>2. CASE main \in {"watchers", "stopping", "worker", "done"}
    <3>1. watching = "late" \/ Rests("watcher")
      BY <2>2 DEF Ended, Rests
    <3>2. main \in {"worker", "done"} => Rests("worker")
      BY DEF Ended, Rests, NoCallback
    <3>3. main = "done" => Rests("tracker")
      BY DEF Ended, Rests
    <3>4. watching' = watching \/ watching' = "late"
      BY <1>1, <2>2, WatchingStays
    <3>5. watching = "late" => watching' = "late"
      BY <3>4
    <3>6. watching # "late" => watching = "off" /\ Idle("watcher")'
      BY <2>1, <2>2, <3>1 DEF Ended, Enders
    <3>7. main \in {"worker", "done"} => Idle("worker")'
      BY <2>1, <3>2 DEF Enders
    <3>8. main = "done" => Idle("tracker")'
      BY <2>1, <3>3 DEF Enders
    <3>9. watching' = "late" \/ (watching' = "off" /\ Idle("watcher")')
      BY <3>4, <3>5, <3>6
    <3> QED BY <1>1, <3>7, <3>8, <3>9 DEF Ended
  <2>3. CASE main \notin {"watchers", "stopping", "worker", "done"}
    BY <1>1, <2>3 DEF Ended
  <2> QED BY <2>2, <2>3
<1>2. CASE main' # main
  <2>1. UpdateToOffline \/ Shutdown
    BY <1>2, Frame DEF Changes
  <2>2. CASE UpdateToOffline
    BY <2>2 DEF UpdateToOffline, Ended
  <2>3. CASE Shutdown /\ StopWatchers
    <3>1. watching \in {"off", "on", "late"}
      BY DEF TypeOK
    <3> QED BY <2>3, <3>1 DEF Shutdown, StopWatchers, Ended, Idle
  <2>4. CASE Shutdown /\ ~StopWatchers
    BY <2>4 DEF Shutdown, Ended, Idle
  <2> QED BY <2>1, <2>2, <2>3, <2>4 DEF Shutdown
<1> QED BY <1>1, <1>2
-----------------------------------------------------------------------------
(* The inductive invariant.                                                 *)

LEMMA Initially ==
  ASSUME Init PROVE IInv
<1> DEFINE q == IF server = "stopped" THEN OnReady ELSE Tail(OnReady)
<1>1. todo = [g \in Goroutines |-> IF g # "ready" THEN <<>> ELSE q]
  BY DEF Init
<1>3. /\ q \in Seq(Step) /\ q # <<>> /\ Shaped(q) /\ NoQuiet(q)
      /\ Head(q).do \in {"sync", "watch"}
  BY OnReadyMade, Rest
<1> HIDE DEF q
<1>4. <<>> \in Seq(Step) /\ Len(<<>>) = 0
  BY EmptySeq
<1>5. /\ "ready" \in Goroutines /\ todo["ready"] = q
      /\ \A g \in Goroutines : g # "ready" => todo[g] = <<>>
      /\ todo \in [Goroutines -> Seq(Step)]
  BY <1>1, <1>3, <1>4 DEF Goroutines
<1>6. Shapes
  <2>1. Shaped(<<>>) /\ NoQuiet(<<>>)
    BY <1>4 DEF Shaped, Chained, NoQuiet
  <2> QED BY <1>3, <1>4, <1>5, <2>1 DEF Shapes, Made
<1>7. At("ready", "sync") \/ At("ready", "watch")
  BY <1>3, <1>5 DEF At
<1>8. Presences
  <2>1. Known("ready")
    BY <1>7 DEF Known, At
  <2>2. ASSUME NEW g \in Goroutines, g # "ready" PROVE Known(g)
    BY <1>5, <2>2 DEF Known, At
  <2> QED BY <2>1, <2>2 DEF Presences
<1>9. Carried
  <2>1. \A g \in Goroutines : seen[g].age = 0
    BY DEF Init, NoPresence
  <2>2. shown = Nothing
    BY DEF Init
  <2> QED BY <2>1, <2>2 DEF Carried, Newest
<1>10. Ended
  BY DEF Init, Ended
<1>11. TypeOK
  <2>1. <<>> \in Seq(Line) /\ <<>> \in Seq(States)
    BY EmptySeq
  <2>2. seen \in [Goroutines -> Presence]
    BY DEF Init, NoPresence, Presence
  <2>3. shown \in [state : States \cup {"nothing", "offline"}, players : SUBSET Players]
    BY DEF Init, Nothing
  <2>4. {overtaken, failed, silent} \subseteq BOOLEAN
    BY DEF Init
  <2>5. Len(lines) <= turns /\ Len(events) <= Capacity
    BY <1>4, CapacityAssumption DEF Init
  <2>6. server \in States /\ online \subseteq Players /\ turns \in 0 .. MaxTurns
    BY TurnsAssumption DEF Init, States
  <2>7. /\ main \in {"run", "offline", "flagged", "watchers", "stopping", "worker", "done"}
        /\ watching \in {"off", "on", "late"} /\ revived \in BOOLEAN
    BY DEF Init
  <2>8. lines \in Seq(Line) /\ events \in Seq(States)
    BY <2>1 DEF Init
  <2> QED BY <1>5, <2>2, <2>3, <2>4, <2>5, <2>6, <2>7, <2>8 DEF TypeOK
<1> QED BY <1>6, <1>8, <1>9, <1>10, <1>11 DEF IInv

LEMMA Inductive ==
  ASSUME IInv, [Next]_vars PROVE IInv'
<1>1. Keeps
  BY KeepsStep DEF IInv
<1>2. TypeOK'
  BY <1>1, Frame, TypeStep DEF IInv, Keeps
<1>3. Ended'
  BY EndedStep DEF IInv
<1> QED BY <1>1, <1>2, <1>3 DEF IInv, Keeps

LEMMA Always == Spec => []IInv
<1>1. Init => IInv
  BY Initially
<1>2. IInv /\ [Next]_vars => IInv'
  BY Inductive
<1> QED BY <1>1, <1>2, PTL DEF Spec

\* Every variable of StatusUpdates has its type: the channel never holds more
\* than its capacity, and the subscription no more lines than there were turns.
THEOREM TypeCorrect == Spec => []TypeOK
<1>1. IInv => TypeOK
  BY DEF IInv
<1> QED BY <1>1, Always, PTL

\* When nothing is on its way, nobody is under way who would tell.
LEMMA QuietSettles ==
  ASSUME IInv PROVE Settled
<1> SUFFICES ASSUME main = "run", Quiet, shown # Nothing, ~failed, ~overtaken, ~silent
             PROVE  shown = Truth
  BY DEF Settled
<1>1. ~Told
  <2>1. events = <<>>
    BY DEF Quiet
  <2>2. ASSUME NEW g \in Goroutines, At(g, "state") \/ At(g, "notify") \/ Fresh(g)
        PROVE  FALSE
    <3>1. ~Idle(g)
      BY <2>2 DEF Fresh, At, Idle
    <3>2. g \notin {"worker", "tracker", "watcher", "ready"}
      BY <3>1 DEF Quiet
    <3>3. g # "op"
      BY <2>2, <3>1 DEF Quiet, At, Fresh, Idle
    <3>4. g # "caller"
      BY <2>2, <3>1 DEF Quiet, At, Fresh, Idle
    <3> QED BY <3>2, <3>3, <3>4 DEF Goroutines
  <2>3. ASSUME Idle("op"), Waits("caller") PROVE FALSE
    <3>1. Idle("caller")
      BY <2>3 DEF Quiet
    <3>2. todo["caller"] = <<>> /\ Len(<<>>) = 0
      BY <3>1 DEF Idle
    <3> QED BY <2>3, <3>2 DEF Waits
  <2> QED BY <2>1, <2>2, <2>3 DEF Told
<1>2. Newest
  BY <1>1 DEF IInv, Carried
<1> QED BY <1>2 DEF Newest

\* What the worker, the tracker, the watchers and the commands have to show is
\* shown when all of them have come to rest: Settled, for every number of
\* players, every capacity of the channel and every number of turns.
THEOREM AlwaysSettles == Spec => []Settled
<1>1. IInv => Settled
  BY QuietSettles
<1> QED BY <1>1, Always, PTL

\* Controller.Shutdown ends for good what it waits for: once it has returned the
\* worker and the tracker take no step, whatever events, lines and late Ready
\* handlers there are, nor do the watchers but those a late Ready has started:
\* ShutdownIsFinal.
THEOREM EndsForGood == Spec => ShutdownIsFinal
<1> DEFINE Still == main = "done" =>
                      /\ UNCHANGED [g \in {"worker", "tracker"} |-> todo[g]]
                      /\ watching = "late" \/ UNCHANGED todo["watcher"]
<1>1. IInv /\ [Next]_vars => Still
  <2> SUFFICES ASSUME IInv, [Next]_vars, main = "done"
               PROVE  /\ todo'["worker"] = todo["worker"] /\ todo'["tracker"] = todo["tracker"]
                      /\ watching = "late" \/ todo'["watcher"] = todo["watcher"]
    OBVIOUS
  <2>1. Rests("worker") /\ Rests("tracker") /\ (watching = "late" \/ Rests("watcher"))
    BY DEF IInv, Ended, Rests, NoCallback
  <2>2. \A g \in Enders : Rests(g) => todo'[g] = todo[g]
    BY WhoRests DEF IInv
  <2> QED BY <2>1, <2>2 DEF Enders
<1>2. IInv /\ [Next]_vars => [Still]_vars
  BY <1>1
<1> QED BY <1>2, Always, PTL DEF Spec, ShutdownIsFinal
=============================================================================
