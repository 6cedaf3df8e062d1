---------------------------- MODULE EmbedChannel ----------------------------
(***************************************************************************)
(* Where the status embed is shown: StatusEmbedManager with its message,   *)
(* ChannelConfigurator with the commands that move the embed, the file     *)
(* that keeps their choice, and the bot's restarts, which read it.         *)
(*                                                                         *)
(* A step is one call to Discord or one operation on the file: each may    *)
(* fail, users may delete messages between any two of them, and the bot    *)
(* may end between any two of them. What the embed says is left to         *)
(* StatusUpdates; the manager's lookup, edit and send are the ones here.   *)
(***************************************************************************)
EXTENDS Naturals, Sequences, FiniteSets

CONSTANTS
  Channels,   \* the channels of the guild in which the bot may write
  Default,    \* the channel of the environment, or None
  Retries,    \* maxUnknownMessageRetries
  MaxFaults,  \* how many calls may fail or be cut off by the end of the bot
  MaxDeletes  \* how many messages users delete

None == "none"
NoMessage == 0

ASSUME ChannelsAssumption ==
  /\ Channels \cap {None, "absent", "disabled", "corrupt", "stale"} = {}
  /\ Default \in Channels \cup {None}
ASSUME BoundsAssumption == {Retries, MaxFaults, MaxDeletes} \subseteq Nat

VARIABLES
  messages,  \* the bot's marked messages, in the order of sending
  manager,   \* channelID and messageID of the manager
  op,        \* the operation that holds the manager's mutex
  conf,      \* the command that holds the configurator's mutex
  current,   \* currentChannelID
  store,     \* runtime-config.json
  bot,
  faults, deletes,
  \* history
  acked,     \* the channel of the last command that was answered with success
  broken     \* the last attempt to change or to read the setting failed half-way

memory == <<manager, op, conf, current>>
vars == <<messages, manager, op, conf, current, store, bot, faults, deletes,
          acked, broken>>

Places == Channels \cup {None}
Message == [at : Channels, kind : {"live", "off", "deleted"}]
Stored == Channels \cup {"absent", "disabled", "corrupt", "stale"}
OpType == [job : {"none", "init", "update", "switch", "offline"},
           pc : {"free", "find", "send", "edit", "resend", "archive"},
           at : Places, msg : Nat, tries : 0..Retries]
ConfType == [pc : {"idle", "switch", "persist", "back", "restore"},
             mode : {"channel", "clear", "disabled"}, target : Places,
             previous : Stored, ok : BOOLEAN]

Free == [job |-> "none", pc |-> "free", at |-> None, msg |-> NoMessage, tries |-> 0]
Idle == [pc |-> "idle", mode |-> "clear", target |-> None, previous |-> "absent", ok |-> TRUE]
NoEmbed == [channel |-> None, message |-> NoMessage]

TypeOK ==
  /\ messages \in Seq(Message)
  /\ manager \in [channel : Places, message : 0..Len(messages)]
  /\ op \in OpType /\ op.msg <= Len(messages)
  /\ conf \in ConfType
  /\ current \in Places /\ acked \in Places
  /\ store \in Stored
  /\ bot \in {"down", "up", "closing"}
  /\ faults \in 0..MaxFaults /\ deletes \in 0..MaxDeletes
  /\ broken \in BOOLEAN

\* ResolveStartupEmbedChannelID, of a file that could be read.
Resolve(s) == IF s \in Channels THEN s ELSE IF s = "disabled" THEN None ELSE Default

Live == {m \in 1..Len(messages) : messages[m].kind = "live"}

Init ==
  /\ messages = <<>>
  /\ manager = NoEmbed /\ op = Free /\ conf = Idle /\ current = None
  /\ store \in Stored
  /\ bot = "down"
  /\ faults = 0 /\ deletes = 0
  /\ acked = Resolve(store) /\ broken = FALSE

Fault == faults < MaxFaults /\ faults' = faults + 1
-----------------------------------------------------------------------------
(* The bot.                                                                 *)

\* A stale file is cleared; one that cannot be read is left alone.
StartUp ==
  /\ bot = "down"
  /\ \E channel \in Places :
       /\ manager' = [channel |-> channel, message |-> NoMessage]
       /\ current' = channel
       /\ \/ /\ channel = Resolve(store)
             /\ store' = IF store = "stale" THEN "absent" ELSE store
             /\ broken' = FALSE /\ faults' = faults
          \/ /\ channel = Resolve(store)
             /\ store = "stale" /\ store' = store
             /\ broken' = FALSE /\ Fault
          \/ /\ channel = Default /\ store' = store
             /\ broken' = (Resolve(store) # Default) /\ Fault
  /\ bot' = "up"
  /\ UNCHANGED <<messages, op, conf, deletes, acked>>

\* The process ends. Nothing is under way and the embed is off when all went
\* well; otherwise something is cut off.
Exit ==
  /\ bot # "down" /\ bot' = "down"
  /\ IF op = Free /\ conf = Idle /\ Live = {} THEN faults' = faults ELSE Fault
  /\ manager' = NoEmbed /\ op' = Free /\ conf' = Idle /\ current' = None
  /\ acked' = IF conf = Idle /\ ~broken THEN acked ELSE Resolve(store)
  /\ broken' = FALSE
  /\ UNCHANGED <<messages, store, deletes>>

DeleteMessage ==
  /\ deletes < MaxDeletes /\ deletes' = deletes + 1
  /\ \E m \in 1..Len(messages) :
       /\ messages[m].kind # "deleted"
       /\ messages' = [messages EXCEPT ![m].kind = "deleted"]
  /\ UNCHANGED <<memory, store, bot, faults, acked, broken>>
-----------------------------------------------------------------------------
(* The operations of the manager, under its mutex.                          *)

Begin(job, pc, at, msg) ==
  /\ bot # "down" /\ op.pc = "free"
  /\ op' = [job |-> job, pc |-> pc, at |-> at, msg |-> msg, tries |-> 0]
  /\ UNCHANGED <<messages, manager, conf, current, store, faults, deletes, acked, broken>>

\* Init, at every Ready event.
InitEmbed ==
  /\ manager.channel # None
  /\ Begin("init", "find", manager.channel, NoMessage)
  /\ UNCHANGED bot

\* Update, from whoever has noticed a change.
Update ==
  /\ manager.message # NoMessage
  /\ Begin("update", "edit", manager.channel, manager.message)
  /\ UNCHANGED bot

\* performFinalUpdate: UpdateToOffline, if there is an embed.
UpdateToOffline ==
  /\ bot = "up"
  /\ bot' = "closing"
  /\ \/ /\ manager.message # NoMessage
        /\ Begin("offline", "edit", manager.channel, manager.message)
     \/ /\ manager.message = NoMessage /\ op.pc = "free"
        /\ UNCHANGED <<messages, memory, store, faults, deletes, acked, broken>>

\* SwitchChannel, for a command or for its rollback.
SwitchChannel ==
  /\ conf.pc \in {"switch", "back"}
  /\ LET c == IF conf.pc = "switch" THEN conf.target ELSE current IN
       Begin("switch", IF c = None THEN "archive" ELSE "find", c, NoMessage)
  /\ UNCHANGED bot

\* Mutant: the manager is moved, its message is not.
SwitchedChannelOnly ==
  /\ op' = Free
  /\ manager' = [manager EXCEPT !.channel = op.at]
  /\ conf' = [conf EXCEPT !.pc = IF conf.pc = "switch" THEN "persist" ELSE "restore"]

\* The switch has failed: the command with it, the rollback goes on.
SwitchFails ==
  \/ op.job # "switch" /\ conf' = conf
  \/ op.job = "switch" /\ conf.pc = "switch" /\ conf' = Idle
  \/ /\ op.job = "switch" /\ conf.pc = "back"
     /\ conf' = [conf EXCEPT !.pc = "restore", !.ok = FALSE]

Fails == op' = Free /\ SwitchFails /\ UNCHANGED manager

Switched ==
  /\ op' = Free
  /\ manager' = [channel |-> op.at, message |-> op.msg]
  /\ conf' = [conf EXCEPT !.pc = IF conf.pc = "switch" THEN "persist" ELSE "restore"]

\* findExistingMessage: the newest marked message of the channel.
Newest(c) ==
  LET marked == {m \in 1..Len(messages) : messages[m].at = c /\ messages[m].kind # "deleted"}
  IN IF marked = {} THEN NoMessage ELSE CHOOSE m \in marked : \A n \in marked : n <= m

\* Init takes the message as its own before it edits it.
Adopt(m) ==
  manager' = IF op.job = "init" THEN [manager EXCEPT !.message = m] ELSE manager

FindExistingMessage ==
  /\ op.pc = "find"
  /\ \/ /\ Newest(op.at) # NoMessage
        /\ op' = [op EXCEPT !.pc = "edit", !.msg = Newest(op.at)]
        /\ Adopt(Newest(op.at)) /\ conf' = conf /\ faults' = faults
     \/ /\ Newest(op.at) = NoMessage
        /\ op' = [op EXCEPT !.pc = "send"]
        /\ UNCHANGED <<manager, conf, faults>>
     \* older than the last 100 messages
     \/ /\ Newest(op.at) # NoMessage /\ Fault
        /\ op' = [op EXCEPT !.pc = "send"]
        /\ UNCHANGED <<manager, conf>>
     \* an error: Init goes on as if there were none
     \/ /\ op.job = "switch" /\ Fault /\ Fails
  /\ UNCHANGED <<messages, current, store, bot, deletes, acked, broken>>

Sent == Append(messages, [at |-> op.at, kind |-> "live"])

CreateNewMessage ==
  /\ op.pc = "send"
  /\ \/ /\ messages' = Sent
        /\ op' = [op EXCEPT !.pc = "edit", !.msg = Len(Sent)]
        /\ Adopt(Len(Sent)) /\ conf' = conf /\ faults' = faults
     \/ Fault /\ Fails /\ UNCHANGED messages
  /\ UNCHANGED <<current, store, bot, deletes, acked, broken>>

\* Mutant: the message of before is archived whatever the new one is.
ReplacesAny == manager.message # NoMessage

\* archiveReplacedMessage: not when it is still the message in use.
Replaces ==
  manager.message # NoMessage /\ manager # [channel |-> op.at, message |-> op.msg]

Applied ==
  CASE op.job = "offline" -> op' = Free /\ UNCHANGED <<manager, conf>>
    [] op.job = "switch" /\ Replaces ->
         op' = [op EXCEPT !.pc = "archive"] /\ UNCHANGED <<manager, conf>>
    [] op.job = "switch" /\ ~Replaces -> Switched
    [] OTHER -> /\ op' = Free /\ conf' = conf
                /\ manager' = [manager EXCEPT !.message = op.msg]

\* applyPresence: a message that was deleted is sent anew, ...
ApplyPresence ==
  /\ op.pc = "edit"
  /\ \/ /\ messages[op.msg].kind # "deleted"
        /\ messages' = [messages EXCEPT ![op.msg].kind =
                          IF op.job = "offline" THEN "off" ELSE "live"]
        /\ Applied /\ faults' = faults
     \/ /\ messages[op.msg].kind = "deleted" /\ op.job # "offline"
        /\ op' = [op EXCEPT !.pc = "resend"]
        /\ UNCHANGED <<messages, manager, conf, faults>>
     \/ /\ messages[op.msg].kind = "deleted" /\ op.job = "offline"
        /\ Fails /\ UNCHANGED <<messages, faults>>
     \/ Fault /\ Fails /\ UNCHANGED messages
     \* an error whose text holds "10008", as an identifier may, is misread
     \/ /\ op.job # "offline" /\ Fault
        /\ op' = [op EXCEPT !.pc = "resend"]
        /\ UNCHANGED <<messages, manager, conf>>
  /\ UNCHANGED <<current, store, bot, deletes, acked, broken>>

\* Mutant: it is tried for ever.
RecreateMessageForEver ==
  /\ op.pc = "resend"
  /\ messages' = Sent
  /\ op' = [op EXCEPT !.pc = "edit", !.msg = Len(Sent), !.tries = op.tries + 1]
  /\ UNCHANGED <<manager, conf, faults, current, store, bot, deletes, acked, broken>>

\* Mutant: it is not sent anew.
RecreateMessageNever ==
  /\ op.pc = "resend"
  /\ Fails
  /\ UNCHANGED <<messages, faults, current, store, bot, deletes, acked, broken>>

\* ... a few times: the last one sent is not even tried.
RecreateMessage ==
  /\ op.pc = "resend"
  /\ \/ /\ op.tries < Retries
        /\ messages' = Sent
        /\ op' = [op EXCEPT !.pc = "edit", !.msg = Len(Sent), !.tries = op.tries + 1]
        /\ UNCHANGED <<manager, conf, faults>>
     \/ /\ op.tries = Retries
        /\ messages' = Sent /\ Fails /\ faults' = faults
     \/ Fault /\ Fails /\ UNCHANGED messages
  /\ UNCHANGED <<current, store, bot, deletes, acked, broken>>

Exists(m) == m # NoMessage /\ messages[m].kind # "deleted"

\* archiveMessage, whose failures stop nothing.
ArchiveMessage ==
  /\ op.pc = "archive"
  /\ LET m == manager.message IN
       \/ /\ Exists(m)
          /\ messages' = [messages EXCEPT ![m].kind = "off"]
          /\ faults' = faults
       \/ ~Exists(m) /\ UNCHANGED <<messages, faults>>
       \/ m # NoMessage /\ Fault /\ UNCHANGED messages
  /\ Switched
  /\ UNCHANGED <<current, store, bot, deletes, acked, broken>>

OpStep ==
  \/ FindExistingMessage \/ CreateNewMessage \/ ApplyPresence
  \/ RecreateMessage \/ ArchiveMessage
-----------------------------------------------------------------------------
(* configureChannel, under the configurator's mutex.                        *)

Return == conf' = Idle

\* Mutant: the previous setting is not kept for the rollback.
LoadedNothing == "absent"

\* A file that is corrupt or stale is no previous setting.
Loaded == IF store \in Channels \cup {"disabled"} THEN store ELSE "absent"

\* The channels that the command lets a user choose from.
Targets(mode) ==
  CASE mode = "channel" -> Channels [] mode = "clear" -> {Default} [] mode = "disabled" -> {None}

\* `/마크봇 채널 설정`, `기본값` and `끄기`; without its file it does nothing.
Command(mode, c) ==
  /\ bot # "down" /\ conf.pc = "idle"
  /\ c \in Targets(mode)
  /\ conf' = [pc |-> "switch", mode |-> mode, target |-> c, previous |-> Loaded, ok |-> TRUE]
  /\ UNCHANGED <<messages, manager, op, current, store, bot, faults, deletes, acked, broken>>

Setting(mode, c) ==
  CASE mode = "channel" -> c [] mode = "clear" -> "absent" [] mode = "disabled" -> "disabled"

PersistRuntimeSetting ==
  /\ conf.pc = "persist"
  /\ \/ /\ store' = Setting(conf.mode, conf.target)
        /\ current' = conf.target
        /\ acked' = conf.target /\ broken' = FALSE
        /\ Return /\ faults' = faults
     \/ /\ Fault
        /\ conf' = [conf EXCEPT !.pc = "back"]
        /\ UNCHANGED <<store, current, acked, broken>>
  /\ UNCHANGED <<messages, manager, op, bot, deletes>>

\* The end of rollback; currentChannelID is what it was.
RestoreSetting ==
  /\ conf.pc = "restore"
  /\ \/ /\ store' = conf.previous
        /\ broken' = (broken \/ ~conf.ok) /\ faults' = faults
     \/ Fault /\ store' = store /\ broken' = TRUE
  /\ Return
  /\ UNCHANGED <<messages, manager, op, current, bot, deletes, acked>>

ConfStep == SwitchChannel \/ PersistRuntimeSetting \/ RestoreSetting
-----------------------------------------------------------------------------
Next ==
  \/ StartUp \/ Exit \/ DeleteMessage
  \/ InitEmbed \/ Update \/ UpdateToOffline \/ OpStep
  \/ \E mode \in {"channel", "clear", "disabled"}, c \in Places : Command(mode, c)
  \/ ConfStep

Spec == Init /\ [][Next]_vars

(***************************************************************************)
(* Fairness: an operation that holds the mutex goes on, and the embed is   *)
(* updated again and again, as players come and go.                        *)
(***************************************************************************)
FairSpec == Spec /\ WF_vars(OpStep) /\ SF_vars(Update)
-----------------------------------------------------------------------------
(* The message the manager edits is in the channel it edits it in: a switch *)
(* that fails half-way, a rollback and a message sent anew included.        *)
OwnMessage ==
  manager.message # NoMessage => messages[manager.message].at = manager.channel

(* Between two commands the manager, the configurator and what a restart   *)
(* would read all agree on the channel that was last acknowledged, however *)
(* a command failed and wherever the bot ended - unless a rollback itself  *)
(* failed, or the file could not be read.                                  *)
ConfigAgrees ==
  bot # "down" /\ conf.pc = "idle" /\ ~broken =>
    /\ manager.channel = acked /\ current = acked
    /\ Resolve(store) = acked

(* As long as no call fails and the bot ends in order, at most one message  *)
(* has buttons that work, the one the manager answers to; and the manager's *)
(* own message is never left switched off.                                  *)
OneControl ==
  faults = 0 /\ deletes <= Retries /\ bot # "down" /\ op.pc = "free" /\ conf.pc = "idle" =>
    /\ Live \subseteq {manager.message}
    /\ bot = "up" /\ manager.message # NoMessage => messages[manager.message].kind # "off"

(* An embed that users delete, or that an edit did not reach, is shown     *)
(* again, as long as the bot has not lost it by ending or by being told to *)
(* show none.                                                              *)
Reappears ==
  manager.message # NoMessage ~>
    manager.message \in Live \cup {NoMessage}
=============================================================================
