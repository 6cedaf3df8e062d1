------------------------- MODULE EmbedChannelProofs -------------------------
(***************************************************************************)
(* OwnMessage, ConfigAgrees and OneControl of EmbedChannel, for any number *)
(* of channels, messages, retries, failures and deletions.                 *)
(*                                                                         *)
(* OwnMessage needs what the operation under the mutex knows (Held, Found),*)
(* ConfigAgrees what a command has still to do before the setting and the  *)
(* embed agree again (Pending). OneControl says nothing of a call that     *)
(* failed: as long as none does (Smooth), the messages with buttons are    *)
(* the manager's and the operation's (Buttons), a message that is searched *)
(* for is the one found before (Latest), and no retry is given up, because *)
(* each was caused by another deletion (Counted).                          *)
(***************************************************************************)
EXTENDS EmbedChannel, TLAPS, SequenceTheorems, FiniteSetTheorems

Marked(c) == {m \in 1..Len(messages) : messages[m].at = c /\ messages[m].kind # "deleted"}
Deleted(m) == m \in 1..Len(messages) /\ messages[m].kind = "deleted"
Working == {"find", "send", "edit", "resend"}

\* Where a command wants the embed to be.
Aim == IF conf.pc = "switch" THEN conf.target ELSE current

\* Whoever holds the mutex works on the channel of the manager, or for the
\* command that waits for its switch.
Held ==
  /\ op.pc = "free" <=> op.job = "none"
  /\ op.pc \in Working => op.at \in Channels
  /\ op.pc \in {"find", "send"} => op.msg = NoMessage /\ op.tries = 0
  /\ op.pc = "archive" => op.job = "switch"
  /\ op.job = "offline" => op.pc = "edit" /\ op.msg = manager.message /\ bot # "up"
  /\ op.job = "update" => op.pc \in {"edit", "resend"}
  /\ op.job \in {"init", "update", "offline"} => op.at = manager.channel
  /\ op.job = "switch" => conf.pc \in {"switch", "back"} /\ op.at = Aim

Owns(m, c) == m # NoMessage => c \in Channels /\ messages[m].at = c

\* Both the manager and the operation have messages of their own channel.
Found ==
  /\ Owns(manager.message, manager.channel)
  /\ op.pc \in {"edit", "archive"} => Owns(op.msg, op.at)
  /\ op.pc = "edit" => op.msg # NoMessage
  /\ op.pc = "archive" => op.msg = NoMessage \/ op.msg # manager.message

\* A command asks for a channel it may ask for.
Asked == conf.pc # "idle" => conf.target \in Targets(conf.mode)

\* What a command has reached, and what its rollback would bring back.
Pending ==
  /\ conf.pc = "persist" => manager.channel = conf.target
  /\ conf.pc = "restore" /\ conf.ok => manager.channel = current
  /\ bot = "down" => /\ manager = NoEmbed /\ op.pc = "free" /\ conf.pc = "idle"
                     /\ ~broken /\ Resolve(store) = acked
  /\ bot # "down" /\ ~broken =>
       /\ current = acked /\ Resolve(store) = acked
       /\ conf.pc # "idle" => Resolve(conf.previous) = acked
       /\ conf.pc \in {"idle", "switch"} => manager.channel = acked

Smooth == faults = 0 /\ deletes <= Retries

\* Each retry was caused by a deletion of its own.
Counted ==
  /\ (\E m \in 1..Len(messages) : Deleted(m)) => deletes >= 1
  /\ faults = 0 =>
       /\ op.pc = "edit" => deletes >= op.tries /\ (Deleted(op.msg) => deletes >= op.tries + 1)
       /\ op.pc = "resend" => Deleted(op.msg) /\ deletes >= op.tries + 1

\* No marked message of the channel is newer.
IsLatest(m, c) == m # NoMessage => \A n \in Marked(c) : n <= m
Latest ==
  Smooth =>
    /\ op.pc \in {"free", "find"} => IsLatest(manager.message, manager.channel)
    /\ op.pc \in {"edit", "archive"} => IsLatest(op.msg, op.at)

\* Whose the messages with working buttons are.
Buttons ==
  Smooth =>
    /\ bot = "down" => Live = {}
    /\ op.pc \in {"free", "find"} => Live \subseteq {manager.message}
    /\ op.job = "switch" => Live \subseteq {manager.message, op.msg}
    /\ op.job # "switch" /\ op.pc \in {"edit", "resend"} => Live \subseteq {op.msg}
    /\ op.job = "init" /\ op.pc = "send" => Live = {}

On(m) == m # NoMessage => messages[m].kind # "off"
SwitchedOn ==
  Smooth /\ bot = "up" =>
    /\ op.job # "init" \/ op.pc \in {"find", "send"} => On(manager.message)
    /\ op.pc = "archive" => On(op.msg)

IInv ==
  TypeOK /\ Held /\ Found /\ Asked /\ Pending /\ Counted /\ Latest /\ Buttons /\ SwitchedOn
-----------------------------------------------------------------------------
(* Messages.                                                                *)

LEMMA Bounds == Retries \in Nat /\ MaxFaults \in Nat /\ MaxDeletes \in Nat
  BY BoundsAssumption

LEMMA Names ==
  /\ Default \in Places /\ None \notin Channels
  /\ Channels \cap {"absent", "disabled", "corrupt", "stale"} = {}
  BY ChannelsAssumption DEF Places

\* A non-empty set of numbers up to n has a largest.
LEMMA Largest ==
  ASSUME NEW n \in Nat, NEW S \in SUBSET (1..n), S # {}
  PROVE  \E m \in S : \A k \in S : k <= m
<1> DEFINE From(k) == {j \in S : k <= j}
           T == {From(k) : k \in S}
           Q == StrictSubsetOrdering(S)
<1>1. IsFiniteSet(S)
  <2>1. IsFiniteSet(1..n)
    BY FS_Interval
  <2> QED BY <2>1, FS_Subset
<1>2. T \subseteq SUBSET S /\ T # {}
  OBVIOUS
<1>3. IsWellFoundedOn(Q, SUBSET S)
  BY <1>1, FS_StrictSubsetOrderingWellFounded, FS_FiniteSubsetsOfFinite
<1>4. PICK A \in T : \A B \in T : <<B, A>> \notin Q
  <2> HIDE DEF T, Q
  <2> QED BY <1>2, <1>3, WFMin
<1>5. PICK m \in S : A = From(m)
  OBVIOUS
<1>6. SUFFICES ASSUME NEW k \in S, ~(k <= m) PROVE FALSE
  OBVIOUS
<1>7. \A j \in S : j \in Nat
  OBVIOUS
<1>8. From(k) \subseteq From(m) /\ m \notin From(k) /\ m \in From(m)
  <2>1. m < k
    BY <1>6, <1>7
  <2>2. \A j \in S : k <= j => m <= j
    BY <1>7, <2>1
  <2>3. m \in From(m)
    <3>1. m <= m
      BY <1>7
    <3> QED BY <3>1
  <2>4. m \notin From(k)
    <3>1. ~(k <= m)
      BY <1>6
    <3> QED BY <3>1
  <2> QED BY <2>2, <2>3, <2>4
<1>9. From(k) \in T /\ From(k) \in SUBSET S /\ A \in SUBSET S
  OBVIOUS
<1> HIDE DEF From, T
<1> QED BY <1>4, <1>5, <1>8, <1>9 DEF StrictSubsetOrdering

LEMMA NewestFacts ==
  ASSUME messages \in Seq(Message), NEW c
  PROVE  /\ Newest(c) = NoMessage <=> Marked(c) = {}
         /\ Newest(c) # NoMessage =>
              Newest(c) \in Marked(c) /\ \A n \in Marked(c) : n <= Newest(c)
<1> DEFINE S == Marked(c)
<1>1. S \in SUBSET (1..Len(messages)) /\ Len(messages) \in Nat
  BY DEF Marked
<1>2. CASE S = {}
  BY <1>2 DEF Newest, Marked, NoMessage
<1>3. CASE S # {}
  <2>1. \E m \in S : \A n \in S : n <= m
    BY <1>1, <1>3, Largest
  <2>2. Newest(c) = CHOOSE m \in S : \A n \in S : n <= m
    BY <1>3 DEF Newest, Marked
  <2>3. Newest(c) \in S /\ \A n \in S : n <= Newest(c)
    <3> HIDE DEF S
    <3> QED BY <2>1, <2>2
  <2> QED BY <1>1, <1>3, <2>3 DEF NoMessage
<1> QED BY <1>2, <1>3

\* An edit changes the kind of one message, ...
LEMMA EditFacts ==
  ASSUME messages \in Seq(Message), NEW m \in 1..Len(messages),
         NEW k \in {"live", "off", "deleted"}, messages' = [messages EXCEPT ![m].kind = k]
  PROVE  /\ messages' \in Seq(Message) /\ Len(messages') = Len(messages)
         /\ \A n \in 1..Len(messages) :
              /\ messages'[n].at = messages[n].at
              /\ messages'[n].kind = IF n = m THEN k ELSE messages[n].kind
<1>1. messages[m] \in Message
  BY ElementOfSeq
<1>2. [messages[m] EXCEPT !.kind = k] \in Message
  BY <1>1 DEF Message
<1>3. messages' = [messages EXCEPT ![m] = [messages[m] EXCEPT !.kind = k]]
  OBVIOUS
<1>4. messages' \in Seq(Message) /\ Len(messages') = Len(messages)
  BY <1>2, <1>3, ExceptSeq
<1>5. ASSUME NEW n \in 1..Len(messages)
      PROVE  messages'[n] = IF n = m THEN [messages[m] EXCEPT !.kind = k] ELSE messages[n]
  BY <1>3
<1> QED BY <1>1, <1>4, <1>5 DEF Message

\* ... and a new message comes after all the others.
LEMMA SentFacts ==
  ASSUME messages \in Seq(Message), op.at \in Channels, messages' = Sent
  PROVE  /\ messages' \in Seq(Message) /\ Len(messages) \in Nat
         /\ Len(messages') = Len(messages) + 1 /\ Len(Sent) = Len(messages) + 1
         /\ \A n \in 1..Len(messages) : messages'[n] = messages[n]
         /\ messages'[Len(messages) + 1] = [at |-> op.at, kind |-> "live"]
<1>1. [at |-> op.at, kind |-> "live"] \in Message
  BY DEF Message
<1> QED BY <1>1, AppendProperties DEF Sent
-----------------------------------------------------------------------------
(* The types, and what whoever holds the mutex knows.                       *)

Base == TypeOK /\ Held /\ Found /\ Asked

LEMMA Literals ==
  /\ Free \in OpType /\ Idle \in ConfType
  /\ NoEmbed.channel = None /\ NoEmbed.message = NoMessage
  BY Bounds DEF Free, Idle, NoEmbed, OpType, ConfType, Places, Stored, NoMessage

LEMMA FaultTypes ==
  ASSUME faults \in 0..MaxFaults, faults' = faults \/ Fault
  PROVE  faults' \in 0..MaxFaults /\ (faults' = 0 => faults = 0)
  BY Bounds DEF Fault

LEMMA ResolveTypes == \A s \in Stored : Resolve(s) \in Places
  BY Names DEF Resolve, Stored, Places

\* A step that sends and edits nothing, and does not touch the manager.
LEMMA BaseBystander ==
  ASSUME Base, UNCHANGED <<messages, manager, op>>,
         UNCHANGED <<conf, current>> \/ op.job # "switch",
         bot' = bot \/ op.pc = "free",
         conf' = conf \/ Asked', conf' \in ConfType, current' \in Places, acked' \in Places, store' \in Stored,
         bot' \in {"down", "up", "closing"}, faults' \in 0..MaxFaults,
         deletes' \in 0..MaxDeletes, broken' \in BOOLEAN
  PROVE  Base'
<1>1. TypeOK'
  BY DEF Base, TypeOK
<1>2. Held'
  BY DEF Base, Held, Aim
<1>3. Found'
  BY DEF Base, Found, Owns
<1>4. Asked'
  BY DEF Base, Asked
<1> QED BY <1>1, <1>2, <1>3, <1>4 DEF Base

LEMMA StartUpBase == ASSUME Base, bot = "down" => op.pc = "free", StartUp PROVE Base'
<1>1. op.pc = "free" /\ op' = op /\ messages' = messages /\ manager'.message = NoMessage
  BY DEF StartUp
<1>2. TypeOK'
  <2>1. manager' \in [channel : Places, message : 0..Len(messages')] /\ current' \in Places
    BY <1>1 DEF StartUp, Base, TypeOK, NoMessage
  <2>2. store' \in Stored /\ broken' \in BOOLEAN
    BY DEF StartUp, Base, TypeOK, Stored
  <2>3. faults' \in 0..MaxFaults
    BY FaultTypes DEF StartUp, Base, TypeOK
  <2> QED BY <1>1, <2>1, <2>2, <2>3 DEF StartUp, Base, TypeOK
<1>3. Held'
  BY <1>1 DEF Base, Held, Working
<1>4. Found'
  BY <1>1 DEF Found, Owns
<1>5. Asked'
  BY DEF StartUp, Base, Asked
<1> QED BY <1>2, <1>3, <1>4, <1>5 DEF Base

LEMMA ExitBase == ASSUME Base, Exit PROVE Base'
<1>1. TypeOK'
  <2>1. faults' \in 0..MaxFaults
    BY FaultTypes DEF Exit, Base, TypeOK
  <2>2. manager' \in [channel : Places, message : 0..Len(messages')]
    BY DEF Exit, Base, TypeOK, NoEmbed, Places, NoMessage
  <2>3. op'.msg <= Len(messages')
    BY DEF Exit, Base, TypeOK, Free, NoMessage
  <2>4. acked' \in Places /\ current' \in Places
    BY ResolveTypes DEF Exit, Base, TypeOK, Places
  <2> QED BY <2>1, <2>2, <2>3, <2>4, Literals DEF Exit, Base, TypeOK
<1>2. Held'
  BY DEF Exit, Held, Free, Working
<1>3. Found'
  BY DEF Exit, Found, Owns, Free, NoEmbed
<1>4. Asked'
  BY DEF Exit, Asked, Idle
<1> QED BY <1>1, <1>2, <1>3, <1>4 DEF Base

LEMMA DeleteBase == ASSUME Base, DeleteMessage PROVE Base'
<1>1. PICK m \in 1..Len(messages) :
        messages' = [messages EXCEPT ![m].kind = "deleted"]
  BY DEF DeleteMessage
<1>2. /\ messages' \in Seq(Message) /\ Len(messages') = Len(messages)
      /\ \A n \in 1..Len(messages) : messages'[n].at = messages[n].at
  BY <1>1, EditFacts DEF Base, TypeOK
<1>3. UNCHANGED <<manager, op, conf, current, bot>>
  BY DEF DeleteMessage, memory
<1>4. TypeOK'
  BY <1>2, <1>3, Bounds DEF DeleteMessage, Base, TypeOK
<1>5. Held'
  BY <1>3 DEF Base, Held, Aim
<1>6. Found'
  BY <1>2, <1>3 DEF Base, TypeOK, Found, Owns, OpType, NoMessage
<1>7. Asked'
  BY <1>3 DEF Base, Asked
<1> QED BY <1>4, <1>5, <1>6, <1>7 DEF Base

\* What an operation knows when it takes the mutex.
LEMMA BeginBase ==
  ASSUME Base, bot' \in {"down", "up", "closing"},
         NEW job \in {"init", "update", "switch", "offline"},
         NEW pc \in {"find", "edit", "archive"},
         NEW at \in Places, NEW msg \in 0..Len(messages), Begin(job, pc, at, msg),
         pc # "archive" => at \in Channels,
         pc = "find" => msg = NoMessage, pc = "archive" => job = "switch" /\ msg = NoMessage,
         pc = "edit" => msg # NoMessage /\ Owns(msg, at),
         job = "offline" => pc = "edit" /\ msg = manager.message /\ bot' # "up",
         job = "update" => pc = "edit",
         job # "switch" => at = manager.channel,
         job = "switch" => conf.pc \in {"switch", "back"} /\ at = Aim
  PROVE  Base'
<1>1. op' = [job |-> job, pc |-> pc, at |-> at, msg |-> msg, tries |-> 0]
  BY DEF Begin
<1>2. UNCHANGED <<messages, manager, conf, current>>
  BY DEF Begin
<1>3. TypeOK'
  <2>1. op' \in OpType
    BY <1>1, Bounds DEF OpType, Base, TypeOK
  <2> QED BY <1>1, <1>2, <2>1 DEF Begin, Base, TypeOK
<1>4. Held'
  BY <1>1, <1>2 DEF Held, Aim, Working
<1>5. Found'
  BY <1>1, <1>2 DEF Base, Found, Owns
<1>6. Asked'
  BY <1>2 DEF Base, Asked
<1> QED BY <1>3, <1>4, <1>5, <1>6 DEF Base

LEMMA BeginsBase ==
  ASSUME Base, InitEmbed \/ Update \/ UpdateToOffline \/ SwitchChannel PROVE Base'
<1>1. manager.message \in 0..Len(messages) /\ manager.channel \in Places /\ NoMessage \in 0..Len(messages)
  BY DEF Base, TypeOK, NoMessage
<1>2. CASE InitEmbed
  <2>1. manager.channel \in Channels
    BY <1>1, <1>2 DEF InitEmbed, Places
  <2> QED BY <1>1, <1>2, <2>1, BeginBase DEF InitEmbed, Base, TypeOK
<1>3. Owns(manager.message, manager.channel)
  BY DEF Base, Found
<1>4. CASE Update
  <2>1. manager.channel \in Channels
    BY <1>3, <1>4 DEF Update, Owns
  <2> QED BY <1>1, <1>3, <1>4, <2>1, BeginBase DEF Update, Base, TypeOK
<1>5. CASE UpdateToOffline
  <2>1. CASE manager.message # NoMessage
    <3>1. manager.channel \in Channels
      BY <1>3, <2>1 DEF Owns
    <3>2. Begin("offline", "edit", manager.channel, manager.message) /\ bot' = "closing"
      BY <1>5, <2>1 DEF UpdateToOffline
    <3> QED BY <1>1, <1>3, <2>1, <3>1, <3>2, BeginBase
  <2>2. CASE manager.message = NoMessage
    BY <1>5, <2>2, BaseBystander DEF UpdateToOffline, memory, Base, TypeOK
  <2> QED BY <2>1, <2>2
<1>6. CASE SwitchChannel
  <2>1. conf.pc \in {"switch", "back"} /\ Aim \in Places /\ bot' = bot
    BY <1>6 DEF SwitchChannel, Aim, Base, TypeOK, ConfType
  <2>2. Begin("switch", IF Aim = None THEN "archive" ELSE "find", Aim, NoMessage)
    BY <1>6 DEF SwitchChannel, Aim
  <2>3. CASE Aim = None
    BY <1>1, <2>1, <2>2, <2>3, BeginBase DEF Base, TypeOK
  <2>4. CASE Aim # None
    <3>1. Aim \in Channels
      BY <2>1, <2>4 DEF Places
    <3> QED BY <1>1, <2>1, <2>2, <2>4, <3>1, BeginBase DEF Base, TypeOK
  <2> QED BY <2>3, <2>4
<1> QED BY <1>2, <1>4, <1>5, <1>6

LEMMA ConfBase ==
  ASSUME Base,
         \/ \E mode \in {"channel", "clear", "disabled"}, c \in Places : Command(mode, c)
         \/ PersistRuntimeSetting \/ RestoreSetting
  PROVE  Base'
<1>1. CASE \E mode \in {"channel", "clear", "disabled"}, c \in Places : Command(mode, c)
  <2>1. PICK mode \in {"channel", "clear", "disabled"}, c \in Places : Command(mode, c)
    BY <1>1
  <2>2. conf' \in ConfType
    <3>1. Loaded \in Stored
      BY DEF Loaded, Base, TypeOK, Stored
    <3> QED BY <2>1, <3>1 DEF Command, ConfType
  <2>3. op.job # "switch"
    BY <2>1 DEF Command, Base, Held
  <2>4. Asked'
    BY <2>1 DEF Command, Asked
  <2> QED BY <2>1, <2>2, <2>3, <2>4, BaseBystander DEF Command, Base, TypeOK
<1>2. CASE PersistRuntimeSetting
  <2>1. op.job # "switch" /\ conf.target \in Places
    BY <1>2 DEF PersistRuntimeSetting, Base, Held, TypeOK, ConfType
  <2>2. conf' \in ConfType
    BY <1>2, Literals DEF PersistRuntimeSetting, Return, Base, TypeOK, ConfType
  <2>3. store' \in Stored
    <3>1. Setting(conf.mode, conf.target) \in Stored
      <4>1. conf.target \in Targets(conf.mode) /\ conf.mode \in {"channel", "clear", "disabled"}
        BY <1>2 DEF PersistRuntimeSetting, Base, Asked, TypeOK, ConfType
      <4> QED BY <4>1 DEF Setting, Targets, Stored
    <3> QED BY <1>2, <3>1 DEF PersistRuntimeSetting, Base, TypeOK
  <2>4. faults' \in 0..MaxFaults
    BY <1>2, FaultTypes DEF PersistRuntimeSetting, Base, TypeOK
  <2>5. Asked'
    BY <1>2 DEF PersistRuntimeSetting, Return, Idle, Base, Asked, TypeOK, ConfType
  <2> QED
    BY <1>2, <2>1, <2>2, <2>3, <2>4, <2>5, BaseBystander DEF PersistRuntimeSetting, Base, TypeOK
<1>3. CASE RestoreSetting
  <2>1. op.job # "switch" /\ conf.previous \in Stored
    BY <1>3 DEF RestoreSetting, Base, Held, TypeOK, ConfType
  <2>2. faults' \in 0..MaxFaults
    BY <1>3, FaultTypes DEF RestoreSetting, Base, TypeOK
  <2>3. Asked'
    BY <1>3 DEF RestoreSetting, Return, Idle, Asked
  <2> QED
    BY <1>3, <2>1, <2>2, <2>3, Literals, BaseBystander
    DEF RestoreSetting, Return, Base, TypeOK, ConfType
<1> QED BY <1>1, <1>2, <1>3

\* What the steps of an operation leave alone.
Apart == <<current, store, bot, deletes, acked, broken>>
Grown ==
  /\ messages' \in Seq(Message) /\ Len(messages) \in Nat /\ Len(messages') \in Nat
  /\ Len(messages) <= Len(messages')
  /\ \A n \in 1..Len(messages) : messages'[n].at = messages[n].at

LEMMA GrownFacts ==
  ASSUME Base
  PROVE  /\ messages' = messages => Grown
         /\ op.at \in Channels /\ messages' = Sent => Grown
         /\ \A m \in 1..Len(messages), k \in {"live", "off", "deleted"} :
              messages' = [messages EXCEPT ![m].kind = k] => Grown
<1>1. messages \in Seq(Message) /\ Len(messages) \in Nat
  BY DEF Base, TypeOK
<1> QED BY <1>1, SentFacts, EditFacts DEF Grown

LEMMA GrownOwns ==
  ASSUME Grown, NEW m \in 0..Len(messages), NEW c, Owns(m, c)
  PROVE  m \in 0..Len(messages') /\ (Owns(m, c))' /\ (m # NoMessage => messages'[m].at = c)
BY DEF Grown, Owns, NoMessage

\* An operation that fails leaves the manager and ends.
LEMMA FailsBase ==
  ASSUME Base, Grown, op.pc # "free", Fails, UNCHANGED Apart, faults' \in 0..MaxFaults
  PROVE  Base'
<1>1. op' = Free /\ manager' = manager
  BY DEF Fails
<1>2. conf' \in ConfType
  BY Literals DEF Fails, SwitchFails, Base, TypeOK, Held, ConfType
<1>3. manager.message \in 0..Len(messages) /\ Owns(manager.message, manager.channel)
  BY DEF Base, TypeOK, Found
<1>4. manager.message \in 0..Len(messages') /\ messages' \in Seq(Message)
  BY <1>3, GrownOwns DEF Grown
<1>5. TypeOK'
  BY <1>1, <1>2, <1>4, Literals DEF Base, TypeOK, Apart, Free, NoMessage
<1>6. Held'
  BY <1>1 DEF Held, Free, Working
<1>7. Found'
  BY <1>1, <1>3, GrownOwns DEF Found, Free, Owns
<1>8. Asked'
  <2>1. CASE conf' = conf
    BY <2>1 DEF Base, Asked
  <2>2. CASE conf' = Idle
    BY <2>2 DEF Idle, Asked
  <2>3. CASE conf.pc = "back" /\ conf' = [conf EXCEPT !.pc = "restore", !.ok = FALSE]
    <3>1. conf'.target = conf.target /\ conf'.mode = conf.mode
      BY <2>3 DEF Base, TypeOK, ConfType
    <3> QED BY <2>3, <3>1 DEF Base, Asked
  <2> QED BY <2>1, <2>2, <2>3 DEF Fails, SwitchFails
<1> QED BY <1>5, <1>6, <1>7, <1>8 DEF Base

\* One that has switched gives the manager its channel and its message.
LEMMA SwitchedBase ==
  ASSUME Base, Grown, op.pc \in {"edit", "archive"}, op.job = "switch", Switched,
         UNCHANGED Apart, faults' \in 0..MaxFaults
  PROVE  Base'
<1>1. op' = Free /\ manager' = [channel |-> op.at, message |-> op.msg]
  BY DEF Switched
<1>2. conf' \in ConfType
  BY DEF Switched, Base, TypeOK, ConfType
<1>3. op.msg \in 0..Len(messages) /\ Owns(op.msg, op.at) /\ op.at \in Places
  BY DEF Base, TypeOK, Found, OpType
<1>4. op.msg \in 0..Len(messages') /\ messages' \in Seq(Message)
  BY <1>3, GrownOwns DEF Grown
<1>5. TypeOK'
  BY <1>1, <1>2, <1>3, <1>4, Literals DEF Base, TypeOK, Apart, Free, NoMessage
<1>6. Held'
  BY <1>1 DEF Held, Free, Working
<1>7. Found'
  BY <1>1, <1>3, GrownOwns DEF Found, Free, Owns
<1>8. Asked'
  BY DEF Switched, Base, Held, Asked, TypeOK, ConfType
<1> QED BY <1>5, <1>6, <1>7, <1>8 DEF Base

\* One that goes on with a message knows that it is of its channel.
LEMMA GoesOnBase ==
  ASSUME Base, Grown, UNCHANGED Apart, conf' = conf, faults' \in 0..MaxFaults,
         op.pc \in Working, op.job # "offline",
         NEW pc \in {"send", "edit", "resend", "archive"}, NEW msg \in 0..Len(messages'),
         NEW tries \in 0..Retries,
         op' = [op EXCEPT !.pc = pc, !.msg = msg, !.tries = tries],
         pc = "send" => op.job # "update" /\ msg = NoMessage /\ tries = 0,
         pc = "edit" => msg # NoMessage /\ messages'[msg].at = op.at,
         pc = "archive" => /\ op.job = "switch" /\ op.pc = "edit" /\ msg = op.msg
                           /\ msg # manager.message,
         \/ manager' = manager
         \/ pc = "edit" /\ manager' = [manager EXCEPT !.message = msg] /\ op.job = "init"
  PROVE  Base'
<1>1. op \in OpType /\ op' \in OpType /\ op'.msg = msg /\ op'.pc = pc /\ op'.at = op.at /\ op'.job = op.job
  <2>1. msg \in Nat
    BY DEF Grown
  <2> QED BY <2>1 DEF Base, TypeOK, OpType
<1>2. manager' \in [channel : Places, message : 0..Len(messages')]
  BY DEF Base, TypeOK, Grown
<1>3. TypeOK'
  BY <1>1, <1>2 DEF Base, TypeOK, Apart, Grown
<1>4. op.at \in Channels /\ (op.job = "init" => op.at = manager.channel) /\ manager'.channel = manager.channel
  BY DEF Base, Held, TypeOK, Working
<1>5. Held'
  BY <1>1, <1>4 DEF Base, Held, Working, Aim, Apart, TypeOK, OpType
<1>6. Found'
  <2>1. manager.message \in 0..Len(messages) /\ Owns(manager.message, manager.channel)
    BY DEF Base, TypeOK, Found
  <2>2. (Owns(manager.message, manager.channel))'
    <3>1. CASE manager' = manager
      BY <2>1, <3>1, GrownOwns DEF Owns
    <3>2. CASE manager' # manager
      BY <1>4, <3>2, <2>1 DEF Owns, Base, TypeOK
    <3> QED BY <3>1, <3>2
  <2>3. pc \in {"edit", "archive"} => (Owns(op.msg, op.at))'
    <3>1. CASE pc = "edit"
      BY <1>1, <1>4, <3>1 DEF Owns
    <3>2. CASE pc = "archive"
      <4>1. op.msg \in 0..Len(messages) /\ Owns(op.msg, op.at)
        BY <3>2 DEF Base, TypeOK, Found, OpType
      <4> QED BY <1>1, <3>2, <4>1, GrownOwns DEF Owns
    <3> QED BY <3>1, <3>2
  <2> QED BY <1>1, <2>2, <2>3 DEF Found
<1>7. Asked'
  BY DEF Base, Asked
<1> QED BY <1>3, <1>5, <1>6, <1>7 DEF Base

LEMMA FindBase == ASSUME Base, FindExistingMessage PROVE Base'
<1>1. /\ op.pc = "find" /\ op.msg = NoMessage /\ op.at \in Channels /\ op.tries = 0 /\ 0 \in 0..Retries
      /\ op.job \in {"init", "switch"} /\ UNCHANGED Apart /\ Grown /\ op \in OpType
  BY GrownFacts, Bounds
  DEF FindExistingMessage, Apart, Base, Held, Working, TypeOK, OpType
<1>2. CASE Newest(op.at) # NoMessage /\ op' = [op EXCEPT !.pc = "edit", !.msg = Newest(op.at)]
           /\ Adopt(Newest(op.at)) /\ conf' = conf /\ faults' = faults
  <2>1. Newest(op.at) \in 0..Len(messages') /\ messages'[Newest(op.at)].at = op.at
    BY <1>1, <1>2, NewestFacts DEF Base, TypeOK, Marked, FindExistingMessage
  <2>2. op' = [op EXCEPT !.pc = "edit", !.msg = Newest(op.at), !.tries = 0]
    BY <1>1, <1>2 DEF OpType
  <2>3. manager' = manager \/ (manager' = [manager EXCEPT !.message = Newest(op.at)] /\ op.job = "init")
    BY <1>2 DEF Adopt
  <2> QED
    BY <1>1, <1>2, <2>1, <2>2, <2>3, GoesOnBase DEF Working, Base, TypeOK
<1>3. CASE op' = [op EXCEPT !.pc = "send"] /\ UNCHANGED <<manager, conf>> /\ (faults' = faults \/ Fault)
  <2>1. op' = [op EXCEPT !.pc = "send", !.msg = NoMessage, !.tries = 0]
    BY <1>1, <1>3 DEF OpType
  <2>2. faults' \in 0..MaxFaults
    BY <1>3, FaultTypes DEF Base, TypeOK
  <2>3. NoMessage \in 0..Len(messages')
    BY <1>1 DEF Grown, NoMessage
  <2> QED BY <1>1, <1>3, <2>1, <2>2, <2>3, GoesOnBase DEF Working
<1>4. CASE Fault /\ Fails
  BY <1>1, <1>4, FaultTypes, FailsBase DEF Base, TypeOK
<1> QED BY <1>2, <1>3, <1>4 DEF FindExistingMessage

LEMMA CreateBase == ASSUME Base, CreateNewMessage PROVE Base'
<1>1. /\ op.pc = "send" /\ op.msg = NoMessage /\ op.at \in Channels /\ op.tries = 0 /\ 0 \in 0..Retries
      /\ op.job \in {"init", "switch"} /\ UNCHANGED Apart /\ op \in OpType
      /\ messages \in Seq(Message)
  BY Bounds DEF CreateNewMessage, Apart, Base, Held, Working, TypeOK, OpType
<1>2. CASE messages' = Sent /\ op' = [op EXCEPT !.pc = "edit", !.msg = Len(Sent)]
           /\ Adopt(Len(Sent)) /\ conf' = conf /\ faults' = faults
  <2>1. /\ Len(Sent) \in 0..Len(messages') /\ Len(Sent) # NoMessage
        /\ messages'[Len(Sent)].at = op.at /\ Grown
    BY <1>1, <1>2, SentFacts, GrownFacts DEF NoMessage
  <2>2. op' = [op EXCEPT !.pc = "edit", !.msg = Len(Sent), !.tries = 0]
    BY <1>1, <1>2 DEF OpType
  <2>3. manager' = manager \/ (manager' = [manager EXCEPT !.message = Len(Sent)] /\ op.job = "init")
    BY <1>2 DEF Adopt
  <2> QED
    BY <1>1, <1>2, <2>1, <2>2, <2>3, GoesOnBase DEF Working, Base, TypeOK
<1>3. CASE Fault /\ Fails /\ messages' = messages
  BY <1>1, <1>3, GrownFacts, FaultTypes, FailsBase DEF Base, TypeOK
<1> QED BY <1>2, <1>3 DEF CreateNewMessage

\* An edit that has succeeded: what the operation still has to do.
LEMMA AppliedBase ==
  ASSUME Base, Grown, op.pc = "edit", Applied, UNCHANGED Apart, faults' = faults
  PROVE  Base'
<1>1. /\ op.msg \in 0..Len(messages) /\ Owns(op.msg, op.at) /\ op.msg # NoMessage
      /\ Len(messages) <= Len(messages') /\ faults' \in 0..MaxFaults /\ op \in OpType
      /\ op.job \in {"init", "update", "switch", "offline"}
  BY DEF Base, TypeOK, Held, Found, OpType, Grown
<1>2. CASE op.job = "switch" /\ Replaces
  <2>1. op' = [op EXCEPT !.pc = "archive", !.msg = op.msg, !.tries = op.tries]
    BY <1>1, <1>2 DEF Applied, OpType
  <2>2. op.msg # manager.message
    <3>1. SUFFICES ASSUME op.msg = manager.message PROVE manager.channel = op.at
      BY <1>2 DEF Replaces, Base, TypeOK
    <3> QED BY <1>1, <3>1 DEF Owns, Base, Found
  <2>3. op.msg \in 0..Len(messages') /\ op.tries \in 0..Retries
    BY <1>1 DEF Grown, OpType
  <2> QED BY <1>1, <1>2, <2>1, <2>2, <2>3, GoesOnBase DEF Applied, Working
<1>3. CASE op.job = "switch" /\ ~Replaces
  BY <1>1, <1>3, SwitchedBase DEF Applied
<1>4. CASE op.job # "switch"
  <2>1. op' = Free /\ conf' = conf /\ manager'.channel = manager.channel
    BY <1>1, <1>4 DEF Applied, Base, TypeOK
  <2>2. manager' \in [channel : Places, message : 0..Len(messages)]
        /\ Owns(manager'.message, manager.channel)
    BY <1>1, <1>4 DEF Applied, Base, Held, Found, TypeOK, Owns
  <2>3. TypeOK'
    BY <1>1, <2>1, <2>2, Literals DEF Grown, Apart, Base, TypeOK, Free, NoMessage
  <2>4. Held'
    BY <2>1 DEF Held, Free, Working
  <2>5. Found'
    BY <2>1, <2>2 DEF Found, Free, Owns, Grown, Base, TypeOK, NoMessage
  <2>6. Asked'
    BY <2>1 DEF Base, Asked
  <2> QED BY <2>3, <2>4, <2>5, <2>6 DEF Base
<1> QED BY <1>2, <1>3, <1>4

LEMMA ApplyBase == ASSUME Base, ApplyPresence PROVE Base'
<1>1. /\ op.pc = "edit" /\ op.at \in Channels /\ op.msg \in 1..Len(messages) /\ op.msg \in 0..Len(messages)
      /\ op.tries \in 0..Retries /\ UNCHANGED Apart /\ op \in OpType
  BY DEF ApplyPresence, Apart, Base, Held, Found, Working, TypeOK, OpType, NoMessage
<1>2. CASE messages' = [messages EXCEPT ![op.msg].kind = IF op.job = "offline" THEN "off" ELSE "live"]
           /\ Applied /\ faults' = faults
  BY <1>1, <1>2, GrownFacts, AppliedBase
<1>3. CASE op.job # "offline" /\ op' = [op EXCEPT !.pc = "resend"]
           /\ UNCHANGED <<messages, manager, conf>> /\ (faults' = faults \/ Fault)
  <2>1. op' = [op EXCEPT !.pc = "resend", !.msg = op.msg, !.tries = op.tries]
    BY <1>1, <1>3 DEF OpType
  <2>2. faults' \in 0..MaxFaults
    BY <1>3, FaultTypes DEF Base, TypeOK
  <2>3. op.msg \in 0..Len(messages') /\ Grown
    BY <1>1, <1>3, GrownFacts
  <2> QED BY <1>1, <1>3, <2>1, <2>2, <2>3, GoesOnBase DEF Working
<1>4. CASE Fails /\ UNCHANGED messages /\ (faults' = faults \/ Fault)
  BY <1>1, <1>4, GrownFacts, FaultTypes, FailsBase DEF Base, TypeOK
<1> QED BY <1>2, <1>3, <1>4 DEF ApplyPresence

LEMMA RecreateBase == ASSUME Base, RecreateMessage PROVE Base'
<1>1. /\ op.pc = "resend" /\ op.at \in Channels /\ op.job # "offline"
      /\ op.tries \in 0..Retries /\ UNCHANGED Apart /\ op \in OpType
      /\ messages \in Seq(Message)
  BY DEF RecreateMessage, Apart, Base, Held, Working, TypeOK, OpType
<1>2. CASE op.tries < Retries /\ messages' = Sent
           /\ op' = [op EXCEPT !.pc = "edit", !.msg = Len(Sent), !.tries = op.tries + 1]
           /\ UNCHANGED <<manager, conf, faults>>
  <2>1. /\ Len(Sent) \in 0..Len(messages') /\ Len(Sent) # NoMessage
        /\ messages'[Len(Sent)].at = op.at /\ Grown
    BY <1>1, <1>2, SentFacts, GrownFacts DEF NoMessage
  <2>2. op.tries + 1 \in 0..Retries
    BY <1>1, <1>2, Bounds
  <2> QED BY <1>1, <1>2, <2>1, <2>2, GoesOnBase DEF Working, Base, TypeOK
<1>3. CASE (messages' = Sent \/ messages' = messages) /\ Fails /\ (faults' = faults \/ Fault)
  BY <1>1, <1>3, GrownFacts, FaultTypes, FailsBase DEF Base, TypeOK
<1> QED BY <1>2, <1>3 DEF RecreateMessage

LEMMA ArchiveBase == ASSUME Base, ArchiveMessage PROVE Base'
<1>1. op.pc = "archive" /\ op.job = "switch" /\ Switched /\ UNCHANGED Apart
  BY DEF ArchiveMessage, Apart, Base, Held
<1>2. Grown
  <2>1. manager.message \in 0..Len(messages)
    BY DEF Base, TypeOK
  <2>2. CASE messages' = messages
    BY <2>2, GrownFacts
  <2>3. CASE Exists(manager.message) /\ messages' = [messages EXCEPT ![manager.message].kind = "off"]
    <3>1. manager.message \in 1..Len(messages)
      BY <2>1, <2>3 DEF Exists, NoMessage, Base, TypeOK
    <3> QED BY <2>3, <3>1, GrownFacts
  <2> QED BY <2>2, <2>3 DEF ArchiveMessage
<1>3. faults' \in 0..MaxFaults
  BY FaultTypes DEF ArchiveMessage, Base, TypeOK
<1> QED BY <1>1, <1>2, <1>3, SwitchedBase

LEMMA BaseNext ==
  ASSUME Base, bot = "down" => op.pc = "free", [Next]_vars PROVE Base'
<1>1. CASE UNCHANGED vars
  BY <1>1, BaseBystander DEF vars, Base, TypeOK
<1> QED
  BY <1>1, StartUpBase, ExitBase, DeleteBase, BeginsBase, ConfBase, FindBase, CreateBase,
    ApplyBase, RecreateBase, ArchiveBase
  DEF Next, OpStep, ConfStep
-----------------------------------------------------------------------------
(* The setting: what is known of it at each place of a command.             *)

\* Steps that do not decide where the embed is.
LEMMA PendingBystander ==
  ASSUME Pending, UNCHANGED <<conf, current, store, acked, broken>>,
         manager'.channel = manager.channel,
         \/ bot # "down" /\ bot' # "down"
         \/ UNCHANGED <<bot, manager, op>>
  PROVE  Pending'
BY DEF Pending, Resolve, Targets

LEMMA StartUpPending == ASSUME Base, Pending, StartUp PROVE Pending'
<1>1. bot' # "down" /\ UNCHANGED <<conf, acked>> /\ conf.pc = "idle" /\ Resolve(store) = acked
  BY DEF StartUp, Pending
<1>2. PICK channel \in Places :
        /\ manager' = [channel |-> channel, message |-> NoMessage] /\ current' = channel
        /\ \/ /\ channel = Resolve(store)
              /\ store' = IF store = "stale" THEN "absent" ELSE store
           \/ /\ channel = Resolve(store) /\ store' = store
           \/ /\ channel = Default /\ store' = store /\ broken' = (Resolve(store) # Default)
  BY DEF StartUp
<1>3. Resolve("absent") = Resolve("stale")
  BY Names DEF Resolve
<1>4. ~broken' => channel = acked /\ Resolve(store)' = acked
  BY <1>1, <1>2, <1>3 DEF Resolve
<1> QED BY <1>1, <1>2, <1>4 DEF Pending

LEMMA ExitPending == ASSUME Base, Pending, Exit PROVE Pending'
<1>1. /\ bot' = "down" /\ manager' = NoEmbed /\ op'.pc = "free" /\ conf'.pc = "idle"
      /\ ~broken' /\ store' = store
  BY DEF Exit, Free, Idle
<1>2. Resolve(store) = acked'
  BY DEF Exit, Pending, Idle
<1> QED BY <1>1, <1>2, Literals DEF Pending, Resolve, Idle

LEMMA FailsPending ==
  ASSUME Base, Pending, op.pc # "free", Fails, UNCHANGED Apart
  PROVE  Pending'
<1>1. bot # "down" /\ bot' = bot /\ manager' = manager
  BY DEF Pending, Fails, Apart
<1>2. UNCHANGED <<current, store, acked, broken>>
  BY DEF Apart
<1>3. CASE op.job # "switch"
  BY <1>1, <1>2, <1>3, PendingBystander DEF Fails, SwitchFails
<1>4. CASE op.job = "switch" /\ conf.pc = "switch"
  <2>1. conf' = Idle
    BY <1>4 DEF Fails, SwitchFails
  <2> QED BY <1>1, <1>2, <1>4, <2>1 DEF Pending, Idle, Resolve
<1>5. CASE op.job = "switch" /\ conf.pc = "back"
  <2>1. conf'.pc = "restore" /\ ~conf'.ok /\ conf'.previous = conf.previous
    BY <1>5 DEF Fails, SwitchFails, Base, TypeOK, ConfType
  <2> QED BY <1>1, <1>2, <1>5, <2>1 DEF Pending, Resolve
<1> QED BY <1>3, <1>4, <1>5 DEF Base, Held

LEMMA SwitchedPending ==
  ASSUME Base, Pending, op.pc # "free", op.job = "switch", Switched, UNCHANGED Apart
  PROVE  Pending'
<1>1. bot # "down" /\ bot' = bot /\ manager'.channel = Aim
  BY DEF Pending, Switched, Apart, Base, Held
<1>2. UNCHANGED <<current, store, acked, broken>>
  BY DEF Apart
<1>3. CASE conf.pc = "switch"
  <2>1. conf'.pc = "persist" /\ conf'.previous = conf.previous /\ conf'.target = conf.target
    BY <1>3 DEF Switched, Base, TypeOK, ConfType
  <2> QED BY <1>1, <1>2, <1>3, <2>1 DEF Pending, Resolve, Aim
<1>4. CASE conf.pc = "back"
  <2>1. conf'.pc = "restore" /\ conf'.previous = conf.previous
    BY <1>4 DEF Switched, Base, TypeOK, ConfType
  <2> QED BY <1>1, <1>2, <1>4, <2>1 DEF Pending, Resolve, Aim
<1> QED BY <1>3, <1>4 DEF Base, Held

LEMMA OpPending == ASSUME Base, Pending, OpStep PROVE Pending'
<1>1. op.pc # "free" /\ UNCHANGED Apart
  BY DEF OpStep, FindExistingMessage, CreateNewMessage, ApplyPresence, RecreateMessage,
    ArchiveMessage, Apart
<1>2. CASE Fails
  BY <1>1, <1>2, FailsPending
<1>3. CASE op.job = "switch" /\ Switched
  BY <1>1, <1>3, SwitchedPending
<1>4. CASE conf' = conf /\ manager'.channel = manager.channel
  BY <1>1, <1>4, PendingBystander DEF Pending, Apart
<1>5. Fails \/ (op.job = "switch" /\ Switched) \/ (conf' = conf /\ manager'.channel = manager.channel)
  <2>1. ASSUME NEW m, Adopt(m) PROVE manager'.channel = manager.channel
    BY <2>1 DEF Adopt, Base, TypeOK
  <2>2. Applied => (op.job = "switch" /\ Switched) \/ (conf' = conf /\ manager'.channel = manager.channel)
    BY DEF Applied, Base, TypeOK
  <2>3. ArchiveMessage => op.job = "switch" /\ Switched
    BY DEF ArchiveMessage, Base, Held
  <2> QED
    BY <2>1, <2>2, <2>3
    DEF OpStep, FindExistingMessage, CreateNewMessage, ApplyPresence, RecreateMessage
<1> QED BY <1>2, <1>3, <1>4, <1>5

LEMMA CommandPending ==
  ASSUME Base, Pending, NEW mode \in {"channel", "clear", "disabled"}, NEW c \in Places,
         Command(mode, c)
  PROVE  Pending'
<1>1. /\ conf.pc = "idle" /\ conf'.pc = "switch" /\ conf'.previous = Loaded /\ bot # "down"
      /\ UNCHANGED <<manager, op, current, store, bot, acked, broken>>
  BY DEF Command
<1>2. Resolve(Loaded) = Resolve(store)
  BY Names DEF Loaded, Resolve, Base, TypeOK, Stored
<1> QED BY <1>1, <1>2 DEF Pending, Resolve

LEMMA PersistPending == ASSUME Base, Pending, PersistRuntimeSetting PROVE Pending'
<1>1. conf.pc = "persist" /\ manager.channel = conf.target /\ bot # "down" /\ UNCHANGED <<manager, op, bot>>
  BY DEF PersistRuntimeSetting, Pending
<1>2. CASE store' = Setting(conf.mode, conf.target) /\ current' = conf.target /\ acked' = conf.target
           /\ broken' = FALSE /\ Return
  <2>1. Resolve(Setting(conf.mode, conf.target)) = conf.target
    <3>1. conf.target \in Targets(conf.mode) /\ conf.mode \in {"channel", "clear", "disabled"}
      BY <1>1 DEF Base, Asked, TypeOK, ConfType
    <3> QED BY <3>1, Names DEF Setting, Targets, Resolve
  <2>2. conf'.pc = "idle"
    BY <1>2 DEF Return, Idle
  <2>3. Resolve(store)' = conf.target
    BY <1>2, <2>1 DEF Resolve
  <2> QED BY <1>1, <1>2, <2>2, <2>3 DEF Pending
<1>3. CASE conf' = [conf EXCEPT !.pc = "back"] /\ UNCHANGED <<store, current, acked, broken>>
  <2>1. conf'.pc = "back" /\ conf'.previous = conf.previous
    BY <1>3 DEF Base, TypeOK, ConfType
  <2> QED BY <1>1, <1>3, <2>1 DEF Pending, Resolve
<1> QED BY <1>2, <1>3 DEF PersistRuntimeSetting

LEMMA RestorePending == ASSUME Base, Pending, RestoreSetting PROVE Pending'
<1>1. /\ conf.pc = "restore" /\ bot # "down" /\ conf'.pc = "idle"
      /\ UNCHANGED <<manager, op, current, bot, acked>>
  BY DEF RestoreSetting, Return, Idle, Pending
<1>2. ~broken' => ~broken /\ conf.ok /\ store' = conf.previous
  BY DEF RestoreSetting, Base, TypeOK, ConfType
<1> QED BY <1>1, <1>2 DEF Pending, Resolve

LEMMA PendingNext == ASSUME Base, Pending, [Next]_vars PROVE Pending'
<1>1. CASE DeleteMessage
  BY <1>1, PendingBystander DEF DeleteMessage, memory
<1>2. CASE InitEmbed \/ Update \/ UpdateToOffline \/ SwitchChannel
  BY <1>2, PendingBystander
  DEF InitEmbed, Update, UpdateToOffline, SwitchChannel, Begin, memory
<1>3. CASE UNCHANGED vars
  BY <1>3, PendingBystander DEF vars
<1> QED
  BY <1>1, <1>2, <1>3, StartUpPending, ExitPending, OpPending, CommandPending,
    PersistPending, RestorePending
  DEF Next, ConfStep
-----------------------------------------------------------------------------
(* The messages with working buttons.                                       *)

Control == Counted /\ Latest /\ Buttons /\ SwitchedOn

LEMMA LiveFacts ==
  /\ Live \subseteq 1..Len(messages) /\ NoMessage \notin Live
  /\ \A m : Deleted(m) => m \notin Live
BY DEF Live, NoMessage, Deleted

LEMMA SmoothBefore ==
  ASSUME TypeOK, faults' = faults \/ Fault, deletes' \in Nat, deletes <= deletes'
  PROVE  /\ faults' = 0 => faults = 0
         /\ Smooth' => Smooth
         /\ Fault => faults' # 0 /\ ~Smooth'
BY Bounds DEF TypeOK, Fault, Smooth

LEMMA SameSets ==
  ASSUME messages' = messages
  PROVE  /\ Live' = Live
         /\ \A c : Marked(c)' = Marked(c)
         /\ \A m : Deleted(m)' = Deleted(m) /\ On(m)' = On(m)
BY DEF Live, Marked, Deleted, On

LEMMA EditSets ==
  ASSUME messages \in Seq(Message), NEW m \in 1..Len(messages),
         NEW k \in {"live", "off", "deleted"}, messages' = [messages EXCEPT ![m].kind = k],
         messages[m].kind # "deleted"
  PROVE  /\ Live' = IF k = "live" THEN Live \cup {m} ELSE Live \ {m}
         /\ \A c : Marked(c)' \subseteq Marked(c)
         /\ \A n : Deleted(n)' => Deleted(n) \/ (k = "deleted" /\ n = m)
         /\ \A n \in 0..Len(messages) :
              IF n = m THEN On(n)' = (k # "off") ELSE On(n)' = On(n)
<1>1. /\ Len(messages') = Len(messages) /\ Len(messages) \in Nat
      /\ \A n \in 1..Len(messages) :
           /\ messages'[n].at = messages[n].at
           /\ messages'[n].kind = IF n = m THEN k ELSE messages[n].kind
  BY EditFacts
<1>2. Live' = IF k = "live" THEN Live \cup {m} ELSE Live \ {m}
  BY <1>1 DEF Live
<1>3. ASSUME NEW c PROVE Marked(c)' \subseteq Marked(c)
  BY <1>1 DEF Marked
<1>4. ASSUME NEW n PROVE Deleted(n)' => Deleted(n) \/ (k = "deleted" /\ n = m)
  BY <1>1 DEF Deleted
<1>5. ASSUME NEW n \in 0..Len(messages)
      PROVE  IF n = m THEN On(n)' = (k # "off") ELSE On(n)' = On(n)
  BY <1>1 DEF On, NoMessage
<1> QED BY <1>2, <1>3, <1>4, <1>5

LEMMA SentSets ==
  ASSUME messages \in Seq(Message), op.at \in Channels, messages' = Sent
  PROVE  /\ Len(Sent) = Len(messages) + 1 /\ Len(messages) \in Nat
         /\ Live' = Live \cup {Len(Sent)}
         /\ \A c : Marked(c)' \subseteq 1..Len(Sent)
         /\ \A n : Deleted(n)' = Deleted(n)
         /\ ~Deleted(Len(Sent))
         /\ \A n \in 0..Len(messages) : On(n)' = On(n)
<1>1. /\ Len(messages) \in Nat /\ Len(messages') = Len(messages) + 1
      /\ Len(Sent) = Len(messages) + 1
      /\ \A n \in 1..Len(messages) : messages'[n] = messages[n]
      /\ messages'[Len(Sent)].kind = "live"
  BY SentFacts
<1>2. \A n : n \in 1..Len(messages') <=> n \in 1..Len(messages) \/ n = Len(Sent)
  BY <1>1
<1>3. Live' = Live \cup {Len(Sent)}
  BY <1>1, <1>2 DEF Live
<1>4. ASSUME NEW n PROVE Deleted(n)' = Deleted(n)
  BY <1>1, <1>2 DEF Deleted
<1>5. ASSUME NEW n \in 0..Len(messages) PROVE On(n)' = On(n)
  BY <1>1 DEF On, NoMessage
<1>6. ~Deleted(Len(Sent)) /\ \A c : Marked(c)' \subseteq 1..Len(Sent)
  BY <1>1 DEF Deleted, Marked
<1> QED BY <1>1, <1>3, <1>4, <1>5, <1>6

\* After a failure OneControl promises no more.
LEMMA FaultControl ==
  ASSUME Base, Counted, Fault, messages' = messages, deletes' = deletes PROVE Control'
<1>1. faults' # 0 /\ ~Smooth'
  BY SmoothBefore DEF Base, TypeOK
<1>2. Counted'
  BY <1>1, SameSets DEF Counted
<1> QED BY <1>1, <1>2 DEF Control, Latest, Buttons, SwitchedOn

LEMMA ControlBystander ==
  ASSUME Base, Control, UNCHANGED <<messages, manager, op, deletes>>, faults' = faults \/ Fault,
         bot' = bot \/ (bot' = "closing" /\ op.pc = "free")
  PROVE  Control'
<1>1. CASE Fault
  BY <1>1, FaultControl DEF Control
<1>2. CASE faults' = faults
  <2>1. Counted'
    BY <1>2, SameSets DEF Control, Counted
  <2>2. Latest'
    BY <1>2, SameSets DEF Control, Latest, IsLatest, Smooth
  <2>3. Buttons'
    BY <1>2, SameSets DEF Control, Buttons, Smooth
  <2>4. SwitchedOn'
    BY <1>2, SameSets DEF Control, SwitchedOn, Smooth
  <2> QED BY <2>1, <2>2, <2>3, <2>4 DEF Control
<1> QED BY <1>1, <1>2

LEMMA StartUpControl == ASSUME Base, Pending, Control, StartUp PROVE Control'
<1>1. /\ messages' = messages /\ manager'.message = NoMessage /\ op' = op /\ op.pc = "free"
      /\ op.job = "none" /\ bot' = "up" /\ deletes' = deletes /\ (faults' = faults \/ Fault)
      /\ bot = "down"
  BY DEF StartUp, Pending, Base, Held
<1>2. CASE Fault
  BY <1>1, <1>2, FaultControl DEF Control
<1>3. CASE faults' = faults
  <2>1. Counted'
    BY <1>1, <1>3, SameSets DEF Control, Counted
  <2>2. Latest'
    BY <1>1 DEF Latest, IsLatest
  <2>3. Buttons'
    BY <1>1, <1>3, SameSets DEF Control, Buttons, Smooth
  <2>4. SwitchedOn'
    BY <1>1 DEF SwitchedOn, On
  <2> QED BY <2>1, <2>2, <2>3, <2>4 DEF Control
<1> QED BY <1>1, <1>2, <1>3

LEMMA ExitControl == ASSUME Base, Control, Exit PROVE Control'
<1>1. /\ messages' = messages /\ manager'.message = NoMessage /\ op'.pc = "free"
      /\ op'.job = "none" /\ bot' = "down" /\ deletes' = deletes /\ (faults' = faults \/ Fault)
  BY DEF Exit, NoEmbed, Free
<1>2. CASE Fault
  BY <1>1, <1>2, FaultControl DEF Control
<1>3. CASE ~Fault
  <2>1. faults' = faults /\ Live = {}
    BY <1>3 DEF Exit
  <2>2. Counted'
    BY <1>1, <2>1, SameSets DEF Control, Counted
  <2>3. Latest'
    BY <1>1 DEF Latest, IsLatest
  <2>4. Buttons'
    BY <1>1, <2>1, SameSets DEF Buttons
  <2>5. SwitchedOn'
    BY <1>1 DEF SwitchedOn
  <2> QED BY <2>2, <2>3, <2>4, <2>5 DEF Control
<1> QED BY <1>1, <1>2, <1>3

LEMMA DeleteControl == ASSUME Base, Control, DeleteMessage PROVE Control'
<1>1. PICK m \in 1..Len(messages) :
        /\ messages[m].kind # "deleted"
        /\ messages' = [messages EXCEPT ![m].kind = "deleted"]
  BY DEF DeleteMessage
<1>2. /\ UNCHANGED <<manager, op, bot, faults>> /\ deletes' = deletes + 1 /\ deletes \in Nat
      /\ op \in OpType /\ op.msg \in 0..Len(messages) /\ manager.message \in 0..Len(messages)
  BY DEF DeleteMessage, memory, Base, TypeOK, OpType
<1>3. /\ Live' \subseteq Live /\ \A c : Marked(c)' \subseteq Marked(c)
      /\ \A n \in 0..Len(messages) : On(n) => On(n)'
  BY <1>1, EditSets DEF Base, TypeOK
<1>4. Smooth' => Smooth
  BY <1>2, SmoothBefore DEF Base
<1>5. Counted'
  <2>1. \A n : Deleted(n) => Deleted(n)'
    BY <1>1, EditFacts DEF Deleted, Base, TypeOK
  <2> QED BY <1>2, <2>1 DEF Control, Counted, OpType
<1>6. Latest'
  BY <1>2, <1>3, <1>4 DEF Control, Latest, IsLatest
<1>7. Buttons'
  BY <1>2, <1>3, <1>4 DEF Control, Buttons
<1>8. SwitchedOn'
  BY <1>2, <1>3, <1>4 DEF Control, SwitchedOn
<1> QED BY <1>5, <1>6, <1>7, <1>8 DEF Control

LEMMA BeginControl ==
  ASSUME Base, Control, NEW job \in {"init", "update", "switch", "offline"},
         NEW pc \in {"find", "edit", "archive"}, NEW at, NEW msg, Begin(job, pc, at, msg),
         bot' = bot \/ bot' = "closing",
         pc = "edit" => msg = manager.message /\ at = manager.channel,
         pc # "edit" => msg = NoMessage,
         pc = "archive" => job = "switch"
  PROVE  Control'
<1>1. /\ op' = [job |-> job, pc |-> pc, at |-> at, msg |-> msg, tries |-> 0]
      /\ UNCHANGED <<messages, manager, faults, deletes>> /\ op.pc = "free" /\ op.job = "none"
      /\ deletes \in Nat /\ bot # "down"
  BY DEF Begin, Base, Held, TypeOK
<1>2. Counted'
  <2>1. Deleted(msg) => deletes >= 1
    BY <1>1 DEF Control, Counted, Deleted
  <2> QED BY <1>1, <2>1, SameSets DEF Control, Counted
<1>3. Latest'
  BY <1>1, SameSets DEF Control, Latest, IsLatest, Smooth
<1>4. Buttons'
  BY <1>1, SameSets DEF Control, Buttons, Smooth
<1>5. SwitchedOn'
  BY <1>1, SameSets DEF Control, SwitchedOn, Smooth, On
<1> QED BY <1>2, <1>3, <1>4, <1>5 DEF Control

LEMMA BeginsControl ==
  ASSUME Base, Control, InitEmbed \/ Update \/ UpdateToOffline \/ SwitchChannel PROVE Control'
<1>1. CASE InitEmbed
  BY <1>1, BeginControl DEF InitEmbed
<1>2. CASE Update
  BY <1>2, BeginControl DEF Update
<1>3. CASE UpdateToOffline
  <2>1. CASE manager.message # NoMessage
    BY <1>3, <2>1, BeginControl DEF UpdateToOffline
  <2>2. CASE manager.message = NoMessage
    BY <1>3, <2>2, ControlBystander DEF UpdateToOffline, memory
  <2> QED BY <2>1, <2>2
<1>4. CASE SwitchChannel
  <2>1. PICK pc \in {"archive", "find"}, c \in {conf.target, current} :
          Begin("switch", pc, c, NoMessage)
    BY <1>4 DEF SwitchChannel
  <2>2. bot' = bot
    BY <1>4 DEF SwitchChannel
  <2> QED BY <2>1, <2>2, BeginControl
<1> QED BY <1>1, <1>2, <1>3, <1>4

LEMMA FindControl == ASSUME Base, Pending, Control, FindExistingMessage PROVE Control'
<1>1. /\ op.pc = "find" /\ op.msg = NoMessage /\ op.tries = 0 /\ op.job \in {"init", "switch"}
      /\ op \in OpType /\ manager \in [channel : Places, message : 0..Len(messages)]
      /\ UNCHANGED <<messages, deletes, bot>> /\ bot # "down" /\ deletes \in Nat
  BY DEF FindExistingMessage, Base, Held, TypeOK, OpType, Pending
<1>2. op.job = "init" => op.at = manager.channel /\ \A l \in Live : l = manager.message => l \in Marked(op.at)
  BY DEF Base, Held, Found, Owns, Live, Marked, NoMessage
<1>3. CASE Newest(op.at) # NoMessage /\ op' = [op EXCEPT !.pc = "edit", !.msg = Newest(op.at)]
           /\ Adopt(Newest(op.at)) /\ conf' = conf /\ faults' = faults
  <2> DEFINE N == Newest(op.at)
  <2>1. N \in Marked(op.at) /\ \A n \in Marked(op.at) : n <= N
    BY <1>3, NewestFacts DEF Base, TypeOK
  <2>2. op'.pc = "edit" /\ op'.msg = N /\ op'.at = op.at /\ op'.job = op.job /\ op'.tries = 0
    BY <1>1, <1>3 DEF OpType
  <2> HIDE DEF N
  <2>3. Counted'
    BY <1>1, <1>3, <2>1, <2>2, SameSets DEF Control, Counted, Deleted, Marked
  <2>4. Latest'
    BY <1>1, <2>1, <2>2, SameSets DEF Latest, IsLatest
  <2>5. Buttons'
    <3>1. SUFFICES ASSUME Smooth, NEW l \in Live
                   PROVE  l = N \/ (op.job = "switch" /\ l = manager.message)
      BY <1>1, <1>3, <2>2, SameSets DEF Buttons, Smooth, Adopt
    <3>2. l = manager.message
      BY <1>1, <3>1 DEF Control, Buttons
    <3>3. CASE op.job = "init"
      <4>1. l \in Marked(op.at) /\ l <= N
        BY <1>2, <2>1, <3>2, <3>3
      <4>2. N <= l
        BY <1>1, <1>2, <2>1, <3>1, <3>2, <3>3, LiveFacts DEF Control, Latest, IsLatest
      <4> QED BY <2>1, <4>1, <4>2 DEF Marked
    <3> QED BY <1>1, <3>2, <3>3
  <2>6. SwitchedOn'
    BY <1>1, <1>3, <2>2, SameSets DEF Control, SwitchedOn, Smooth, Adopt
  <2> QED BY <2>3, <2>4, <2>5, <2>6 DEF Control
<1>4. CASE Newest(op.at) = NoMessage /\ op' = [op EXCEPT !.pc = "send"] /\ UNCHANGED <<manager, conf, faults>>
  <2>1. Marked(op.at) = {}
    BY <1>4, NewestFacts DEF Base, TypeOK
  <2>2. op'.pc = "send" /\ op'.msg = op.msg /\ op'.at = op.at /\ op'.job = op.job
    BY <1>1, <1>4 DEF OpType
  <2>3. Counted'
    BY <1>1, <1>4, <2>2, SameSets DEF Control, Counted
  <2>4. Latest'
    BY <2>2 DEF Latest
  <2>5. Buttons'
    <3>1. Smooth /\ op.job = "init" => Live = {}
      BY <1>1, <1>2, <2>1 DEF Control, Buttons
    <3> QED BY <1>1, <1>4, <2>2, <3>1, SameSets DEF Control, Buttons, Smooth
  <2>6. SwitchedOn'
    BY <1>1, <1>4, <2>2, SameSets DEF Control, SwitchedOn, Smooth
  <2> QED BY <2>3, <2>4, <2>5, <2>6 DEF Control
<1>5. CASE Fault
  BY <1>1, <1>5, FaultControl DEF Control
<1> QED BY <1>3, <1>4, <1>5 DEF FindExistingMessage

\* A new message takes the place of none, or of one that is deleted.
LEMMA SentControl ==
  ASSUME Base, Pending, Control, op.pc \in {"send", "resend"}, messages' = Sent,
         op'.pc = "edit", op'.msg = Len(Sent), op'.at = op.at, op'.job = op.job,
         op'.tries = IF op.pc = "send" THEN 0 ELSE op.tries + 1,
         manager' = manager \/ op.job = "init",
         UNCHANGED <<faults, deletes, bot>>
  PROVE  Control'
<1>1. /\ op.at \in Channels /\ (op.pc = "send" => op.msg = NoMessage /\ op.job \in {"init", "switch"})
      /\ op.job # "offline" /\ bot # "down" /\ deletes \in Nat /\ messages \in Seq(Message)
      /\ manager.message \in 0..Len(messages) /\ op.tries \in Nat
  BY Bounds DEF Base, Held, TypeOK, OpType, Pending, Working
<1>2. /\ Len(Sent) = Len(messages) + 1 /\ Len(messages) \in Nat
      /\ Live' = Live \cup {Len(Sent)} /\ \A c : Marked(c)' \subseteq 1..Len(Sent)
      /\ (\A n : Deleted(n)' = Deleted(n)) /\ ~Deleted(Len(Sent))
      /\ \A n \in 0..Len(messages) : On(n)' = On(n)
  BY <1>1, SentSets
<1>3. Counted'
  <2>1. faults = 0 => deletes >= op'.tries
    BY <1>1 DEF Control, Counted
  <2>2. ~(Deleted(op.msg))'
    <3>1. messages'[Len(Sent)].kind = "live"
      BY <1>1, <1>2, SentFacts
    <3> QED BY <3>1 DEF Deleted
  <2>3. (\E m \in 1..Len(messages') : Deleted(m)') => \E m \in 1..Len(messages) : Deleted(m)
    BY <1>2 DEF Deleted
  <2>4. (\E m \in 1..Len(messages') : Deleted(m)') => deletes >= 1
    BY <2>3 DEF Control, Counted
  <2> QED BY <2>1, <2>2, <2>4 DEF Counted
<1>4. Latest'
  <2>1. IsLatest(op.msg, op.at)'
    BY <1>2 DEF IsLatest
  <2> QED BY <2>1 DEF Latest
<1>5. Buttons'
  <2>1. Smooth => op.msg \notin Live
    BY <1>1, LiveFacts DEF Control, Counted, Smooth
  <2>2. Smooth => Live \subseteq IF op.job = "switch" THEN {manager.message} ELSE {}
    BY <1>1, <2>1 DEF Control, Buttons
  <2> QED BY <1>1, <1>2, <2>2 DEF Buttons, Smooth
<1>6. SwitchedOn'
  BY <1>1, <1>2 DEF Control, SwitchedOn, Smooth
<1> QED BY <1>3, <1>4, <1>5, <1>6 DEF Control

LEMMA CreateControl == ASSUME Base, Pending, Control, CreateNewMessage PROVE Control'
<1>1. op.pc = "send" /\ op.tries = 0 /\ op \in OpType /\ UNCHANGED <<deletes, bot>>
  BY DEF CreateNewMessage, Base, Held, TypeOK
<1>2. CASE messages' = Sent /\ op' = [op EXCEPT !.pc = "edit", !.msg = Len(Sent)]
           /\ Adopt(Len(Sent)) /\ faults' = faults
  <2>1. op'.pc = "edit" /\ op'.msg = Len(Sent) /\ op'.at = op.at /\ op'.job = op.job /\ op'.tries = 0
    BY <1>1, <1>2 DEF OpType
  <2> QED BY <1>1, <1>2, <2>1, SentControl DEF Adopt
<1>3. CASE Fault /\ messages' = messages
  BY <1>1, <1>3, FaultControl DEF Control
<1> QED BY <1>2, <1>3 DEF CreateNewMessage

LEMMA RecreateControl == ASSUME Base, Pending, Control, RecreateMessage PROVE Control'
<1>1. op.pc = "resend" /\ op \in OpType /\ UNCHANGED <<deletes, bot>> /\ op.at \in Channels
  BY DEF RecreateMessage, Base, Held, TypeOK, Working
<1>2. CASE messages' = Sent /\ op' = [op EXCEPT !.pc = "edit", !.msg = Len(Sent), !.tries = op.tries + 1]
           /\ UNCHANGED <<manager, faults>>
  <2>1. op'.pc = "edit" /\ op'.msg = Len(Sent) /\ op'.at = op.at /\ op'.job = op.job /\ op'.tries = op.tries + 1
    BY <1>2 DEF OpType, Sent
  <2> QED BY <1>1, <1>2, <2>1, SentControl
<1>3. CASE op.tries = Retries /\ messages' = Sent /\ Fails /\ faults' = faults
  <2>1. Deleted(op.msg) /\ faults = 0 => deletes >= Retries + 1
    BY <1>1, <1>3 DEF Control, Counted
  <2>2. ~Smooth'
    BY <1>1, <1>3, <2>1, Bounds DEF Control, Counted, Smooth, Base, TypeOK
  <2>3. Counted'
    <3>1. op'.pc = "free"
      BY <1>3 DEF Fails, Free
    <3>2. (\E m \in 1..Len(messages') : Deleted(m)') => \E m \in 1..Len(messages) : Deleted(m)
      BY <1>1, <1>3, SentSets DEF Deleted, Base, TypeOK
    <3> QED BY <1>1, <3>1, <3>2 DEF Control, Counted
  <2> QED BY <2>2, <2>3 DEF Control, Latest, Buttons, SwitchedOn
<1>4. CASE Fault /\ messages' = messages
  BY <1>1, <1>4, FaultControl DEF Control
<1> QED BY <1>2, <1>3, <1>4 DEF RecreateMessage

\* An edit that has succeeded leaves the operation with the only buttons.
LEMMA ApplyControl == ASSUME Base, Pending, Control, ApplyPresence PROVE Control'
<1>1. /\ op.pc = "edit" /\ op.msg \in 1..Len(messages) /\ messages \in Seq(Message)
      /\ op \in OpType /\ UNCHANGED <<deletes, bot>> /\ bot # "down"
      /\ manager \in [channel : Places, message : 0..Len(messages)]
      /\ op.job \in {"init", "update", "switch", "offline"}
      /\ op.job \in {"init", "update", "offline"} => op.at = manager.channel
      /\ op.job = "offline" => op.msg = manager.message /\ bot # "up"
  BY DEF ApplyPresence, Base, Held, Found, TypeOK, OpType, Pending, NoMessage
<1> DEFINE k == IF op.job = "offline" THEN "off" ELSE "live"
<1>2. CASE messages[op.msg].kind # "deleted" /\ messages' = [messages EXCEPT ![op.msg].kind = k]
           /\ Applied /\ faults' = faults
  <2>1. /\ Live' = IF k = "live" THEN Live \cup {op.msg} ELSE Live \ {op.msg}
        /\ \A c : Marked(c)' \subseteq Marked(c)
        /\ \A n : Deleted(n)' => Deleted(n)
        /\ messages'[op.msg].kind = k
    <3>1. k \in {"live", "off", "deleted"} /\ k # "deleted"
      OBVIOUS
    <3> HIDE DEF k
    <3>2. messages'[op.msg].kind = k
      BY <1>1, <1>2, <3>1, EditFacts
    <3>3. /\ Live' = IF k = "live" THEN Live \cup {op.msg} ELSE Live \ {op.msg}
          /\ \A c : Marked(c)' \subseteq Marked(c)
          /\ \A n : Deleted(n)' => Deleted(n)
      BY <1>1, <1>2, <3>1, EditSets
    <3> QED BY <3>2, <3>3
  <2>2. /\ Smooth' = Smooth /\ (Smooth => IsLatest(op.msg, op.at))
        /\ Smooth => Live \subseteq IF op.job = "switch" THEN {manager.message, op.msg} ELSE {op.msg}
    BY <1>1, <1>2 DEF Smooth, Control, Latest, Buttons
  <2>3. Counted'
    <3>1. op'.pc \in {"free", "archive"}
      BY <1>2, <1>1 DEF Applied, Switched, Free, OpType
    <3>2. (\E n \in 1..Len(messages') : Deleted(n)') => deletes >= 1
      BY <2>1 DEF Deleted, Control, Counted
    <3> QED BY <1>1, <3>1, <3>2 DEF Counted
  <2> HIDE DEF k
  <2>4. CASE op.job = "switch" /\ Replaces
    <3>1. op'.pc = "archive" /\ op'.msg = op.msg /\ op'.at = op.at /\ op'.job = op.job /\ manager' = manager
      BY <1>1, <1>2, <2>4 DEF Applied, OpType
    <3>2. k = "live"
      BY <2>4 DEF k
    <3>3. Latest'
      BY <2>1, <2>2, <3>1 DEF Latest, IsLatest
    <3>4. Buttons'
      BY <1>1, <2>1, <2>2, <2>4, <3>1, <3>2 DEF Buttons
    <3>5. (On(op.msg))'
      BY <2>1, <3>1, <3>2 DEF On
    <3>6. On(manager.message) => (On(manager.message))'
      <4>1. \A n \in 1..Len(messages) :
              messages'[n].kind = IF n = op.msg THEN k ELSE messages[n].kind
        BY <1>1, <1>2, <3>2, EditFacts DEF k
      <4> QED BY <1>1, <3>1, <3>2, <4>1 DEF On, NoMessage
    <3>7. SwitchedOn'
      BY <1>1, <2>2, <2>4, <3>1, <3>5, <3>6 DEF Control, SwitchedOn
    <3> QED BY <2>3, <3>3, <3>4, <3>7 DEF Control
  <2>5. CASE ~(op.job = "switch" /\ Replaces)
    <3>1. op'.pc = "free" /\ op'.job = "none" /\ manager'.message = op.msg /\ manager'.channel = op.at
      BY <1>1, <1>2, <2>5 DEF Applied, Switched, Free
    <3>2. op.job = "switch" => manager.message \in {NoMessage, op.msg}
      BY <2>5 DEF Replaces
    <3>3. Smooth => Live' \subseteq {op.msg}
      BY <2>1, <2>2, <3>2, LiveFacts
    <3>4. Latest'
      BY <2>1, <2>2, <3>1 DEF Latest, IsLatest
    <3>5. Buttons'
      BY <1>1, <2>1, <2>2, <3>1, <3>3 DEF Buttons, k
    <3>6. SwitchedOn'
      BY <1>1, <2>1, <3>1 DEF SwitchedOn, On, k
    <3> QED BY <2>3, <3>4, <3>5, <3>6 DEF Control
  <2> QED BY <2>4, <2>5
<1>3. CASE messages[op.msg].kind = "deleted" /\ op.job # "offline" /\ op' = [op EXCEPT !.pc = "resend"]
           /\ UNCHANGED <<messages, manager, conf, faults>>
  <2>1. op'.pc = "resend" /\ op'.msg = op.msg /\ op'.tries = op.tries /\ op'.job = op.job /\ Deleted(op.msg)
    BY <1>1, <1>3 DEF OpType, Deleted
  <2>2. Counted'
    BY <1>1, <1>3, <2>1, SameSets DEF Control, Counted
  <2>3. Latest'
    BY <2>1 DEF Latest
  <2>4. Buttons'
    BY <1>1, <1>3, <2>1, SameSets DEF Control, Buttons, Smooth
  <2>5. SwitchedOn'
    BY <1>1, <1>3, <2>1, SameSets DEF Control, SwitchedOn, Smooth
  <2> QED BY <2>2, <2>3, <2>4, <2>5 DEF Control
<1>4. CASE messages[op.msg].kind = "deleted" /\ op.job = "offline" /\ Fails
           /\ UNCHANGED <<messages, faults>>
  <2>1. op'.pc = "free" /\ op'.job = "none" /\ manager' = manager /\ Deleted(op.msg)
    BY <1>1, <1>4 DEF Fails, Free, Deleted
  <2>2. Counted'
    BY <1>1, <1>4, <2>1, SameSets DEF Control, Counted
  <2>3. Latest'
    BY <1>1, <1>4, <2>1, SameSets DEF Control, Latest, IsLatest, Smooth
  <2>4. Buttons'
    BY <1>1, <1>4, <2>1, SameSets DEF Control, Buttons, Smooth
  <2>5. SwitchedOn'
    BY <1>1, <1>4 DEF SwitchedOn
  <2> QED BY <2>2, <2>3, <2>4, <2>5 DEF Control
<1>5. CASE Fault /\ messages' = messages
  BY <1>1, <1>5, FaultControl DEF Control
<1> QED BY <1>2, <1>3, <1>4, <1>5 DEF ApplyPresence

LEMMA ArchiveControl == ASSUME Base, Pending, Control, ArchiveMessage PROVE Control'
<1>1. /\ op.pc = "archive" /\ op.job = "switch" /\ messages \in Seq(Message)
      /\ manager.message \in 0..Len(messages) /\ op.msg \in 0..Len(messages)
      /\ op.msg = NoMessage \/ op.msg # manager.message
      /\ UNCHANGED <<deletes, bot>> /\ bot # "down"
      /\ op'.pc = "free" /\ op'.job = "none" /\ manager' = [channel |-> op.at, message |-> op.msg]
  BY DEF ArchiveMessage, Switched, Free, Base, Held, Found, TypeOK, OpType, Pending
<1>2. CASE Fault /\ messages' = messages
  BY <1>1, <1>2, FaultControl DEF Control
<1>3. CASE ~(Fault /\ messages' = messages)
  <2>1. /\ faults' = faults /\ Live' \subseteq Live \ {manager.message}
        /\ \A c : Marked(c)' \subseteq Marked(c)
        /\ \A n : Deleted(n)' => Deleted(n)
        /\ \A n \in 0..Len(messages) : n # manager.message \/ n = NoMessage => On(n)' = On(n)
        /\ Len(messages') = Len(messages)
    <3>1. CASE Exists(manager.message) /\ messages' = [messages EXCEPT ![manager.message].kind = "off"]
               /\ faults' = faults
      <4>1. manager.message \in 1..Len(messages) /\ messages[manager.message].kind # "deleted"
        BY <1>1, <3>1 DEF Exists, NoMessage
      <4>2. /\ Live' = Live \ {manager.message} /\ \A c : Marked(c)' \subseteq Marked(c)
            /\ \A n : Deleted(n)' => Deleted(n)
            /\ \A n \in 0..Len(messages) : n # manager.message => On(n)' = On(n)
        BY <1>1, <3>1, <4>1, EditSets
      <4>3. Len(messages') = Len(messages)
        BY <1>1, <3>1, <4>1, EditFacts
      <4> QED BY <1>1, <3>1, <4>1, <4>2, <4>3 DEF NoMessage
    <3>2. CASE ~Exists(manager.message) /\ UNCHANGED <<messages, faults>>
      <4>1. manager.message \notin Live
        BY <3>2 DEF Exists, Live, NoMessage
      <4> QED BY <3>2, <4>1, SameSets
    <3> QED BY <1>3, <3>1, <3>2 DEF ArchiveMessage
  <2>2. Smooth' = Smooth
    BY <1>1, <2>1 DEF Smooth
  <2>3. Counted'
    BY <1>1, <2>1 DEF Control, Counted
  <2>4. Latest'
    BY <1>1, <2>1, <2>2 DEF Control, Latest, IsLatest
  <2>5. Buttons'
    BY <1>1, <2>1, <2>2 DEF Control, Buttons
  <2>6. SwitchedOn'
    BY <1>1, <2>1, <2>2 DEF Control, SwitchedOn, On
  <2> QED BY <2>3, <2>4, <2>5, <2>6 DEF Control
<1> QED BY <1>2, <1>3

LEMMA ControlNext ==
  ASSUME Base, Pending, Control, [Next]_vars PROVE Control'
<1>1. CASE UNCHANGED vars
  BY <1>1, ControlBystander DEF vars
<1>2. CASE \E mode \in {"channel", "clear", "disabled"}, c \in Places : Command(mode, c)
  BY <1>2, ControlBystander DEF Command
<1>3. CASE PersistRuntimeSetting \/ RestoreSetting
  BY <1>3, ControlBystander DEF PersistRuntimeSetting, RestoreSetting
<1> QED
  BY <1>1, <1>2, <1>3, StartUpControl, ExitControl, DeleteControl, BeginsControl, FindControl,
    CreateControl, ApplyControl, RecreateControl, ArchiveControl
  DEF Next, OpStep, ConfStep
-----------------------------------------------------------------------------
(* The invariant and what it promises.                                      *)

LEMMA InitIInv == Init => IInv
<1> SUFFICES ASSUME Init PROVE IInv
  OBVIOUS
<1>1. messages \in Seq(Message) /\ Len(messages) = 0
  BY EmptySeq DEF Init
<1>2. TypeOK
  <2>1. manager \in [channel : Places, message : 0..Len(messages)] /\ op.msg <= Len(messages)
    BY <1>1 DEF Init, NoEmbed, Places, NoMessage, Free
  <2>2. acked \in Places /\ current \in Places
    BY ResolveTypes DEF Init, Places
  <2>3. faults \in 0..MaxFaults /\ deletes \in 0..MaxDeletes
    BY Bounds DEF Init
  <2> QED BY <1>1, <2>1, <2>2, <2>3, Literals DEF Init, TypeOK
<1>3. Held /\ Found /\ Asked
  BY <1>1 DEF Init, Held, Found, Asked, Owns, NoEmbed, Free, Idle, Working
<1>4. Pending
  BY DEF Init, Pending, Free, Idle
<1>5. Counted /\ Latest /\ Buttons /\ SwitchedOn
  <2>1. Live = {}
    BY <1>1 DEF Live
  <2>2. \A m : ~Deleted(m)
    BY <1>1 DEF Deleted
  <2> QED
    BY <1>1, <2>1, <2>2
    DEF Init, Counted, Latest, Buttons, SwitchedOn, IsLatest, NoEmbed, Free
<1> QED BY <1>2, <1>3, <1>4, <1>5 DEF IInv

LEMMA IInvNext == IInv /\ [Next]_vars => IInv'
<1> SUFFICES ASSUME IInv, [Next]_vars PROVE IInv'
  OBVIOUS
<1>1. Base /\ Pending /\ Control /\ (bot = "down" => op.pc = "free")
  BY DEF IInv, Base, Control, Pending
<1>2. Base'
  BY <1>1, BaseNext
<1>3. Pending'
  BY <1>1, PendingNext
<1>4. Control'
  BY <1>1, ControlNext
<1> QED BY <1>2, <1>3, <1>4 DEF IInv, Base, Control

\* Whatever the bot, the users and a failing Discord do, the invariant holds.
THEOREM Inductive == Spec => []IInv
<1> QED BY InitIInv, IInvNext, PTL DEF Spec

\* TypeOK: the state of status_embed.go and channel_config.go stays in its types,
\* the message of the manager and of the operation among those that were sent.
THEOREM TypeCorrect == Spec => []TypeOK
<1>1. IInv => TypeOK
  BY DEF IInv
<1> QED BY <1>1, Inductive, PTL

\* OwnMessage: the manager never edits a message of one channel in another one,
\* whatever switch failed and wherever (SwitchChannel, archiveReplacedMessage).
THEOREM MessageIsOwn == Spec => []OwnMessage
<1>1. IInv => OwnMessage
  BY DEF IInv, Found, Owns, OwnMessage
<1> QED BY <1>1, Inductive, PTL

\* ConfigAgrees: between two commands the manager, the configurator and the file
\* agree on the channel that was acknowledged, however many commands failed half-way
\* and were rolled back (configureChannel, rollback).
THEOREM SettingAgrees == Spec => []ConfigAgrees
<1>1. IInv => ConfigAgrees
  BY DEF IInv, Pending, ConfigAgrees
<1> QED BY <1>1, Inductive, PTL

\* OneControl: if no call fails and users delete no more messages than the retries of
\* applyPresence can replace, only the manager's message has buttons that work.
THEOREM OneControlOnly == Spec => []OneControl
<1>1. IInv => OneControl
  <2> SUFFICES ASSUME IInv, Smooth, bot # "down", op.pc = "free"
               PROVE  /\ Live \subseteq {manager.message}
                      /\ bot = "up" => On(manager.message)
    BY DEF OneControl, Smooth, On
  <2> QED BY DEF IInv, Held, Buttons, SwitchedOn
<1> QED BY <1>1, Inductive, PTL
=============================================================================
