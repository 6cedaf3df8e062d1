---------------------------- MODULE ControlPanel ----------------------------
(***************************************************************************)
(* The handler of discord: the toggle button, the confirmation of a stop,  *)
(* and /rcon. Every interaction runs in a goroutine of its own, so that    *)
(* the clicks of a user overlap; between them are the store of             *)
(* confirmations and the message with its two buttons.                     *)
(*                                                                         *)
(* A step is one access to the store or to the controller, or one call to  *)
(* Discord, which may fail. A confirmation has the ID of the interaction   *)
(* that asked for it. The controller is cut down to the gate of its        *)
(* commands and to how they end; Controller has it in full.                *)
(***************************************************************************)
EXTENDS Naturals, FiniteSets

CONSTANTS
  Interactions,  \* every one arrives once
  Users,
  Nobody,
  MaxFaults,     \* how many calls to Discord or waits fail
  MaxMoves       \* how often the server or a role changes by itself

ASSUME NobodyAssumption == Nobody \notin Interactions \cup Users
ASSUME BoundsAssumption == {MaxFaults, MaxMoves} \subseteq Nat

VARIABLES
  server,         \* the state of the state manager
  op,             \* the command that the controller carries out
  result,         \* what came of the command of an interaction
  granted,        \* who has the role MCBOT_ROLE_NAME
  toggle,         \* is the message of the toggle the current one
  handler,        \* the goroutine of an interaction
  confirmations,  \* StopConfirmationStore.m
  shown,          \* the confirmations whose message is there
  faults, moves,
  settled,        \* history: the confirmations that somebody has removed
  executed        \* history: an RCON command was sent

controller == <<server, op, result>>
messages == <<confirmations, shown>>
vars == <<controller, granted, toggle, handler, messages, faults, moves, settled, executed>>

NoEntry == [user |-> Nobody, fresh |-> FALSE]
Unused == [pc |-> "unused", kind |-> "none", user |-> Nobody, role |-> FALSE, about |-> Nobody]

HandlerType ==
  [pc : {"unused", "current", "presence", "start", "ask", "save", "get", "refuse",
         "message", "respond", "delete", "stop", "wait", "rcon", "execute", "done"},
   kind : {"none", "toggle", "confirm", "cancel", "rcon"},
   user : Users \cup {Nobody}, role : BOOLEAN, about : Interactions \cup {Nobody}]
EntryType == [user : Users \cup {Nobody}, fresh : BOOLEAN]
OpType == [by : Interactions \cup {Nobody}, kind : {"none", "start", "stop"}]

TypeOK ==
  /\ server \in {"stopped", "starting", "running", "stopping", "crashed", "error"}
  /\ op \in OpType
  /\ result \in [Interactions -> {"none", "success", "failure"}]
  /\ granted \subseteq Users /\ toggle \in BOOLEAN
  /\ handler \in [Interactions -> HandlerType]
  /\ confirmations \in [Interactions -> EntryType]
  /\ shown \subseteq Interactions /\ settled \subseteq Interactions \cup {Nobody}
  /\ faults \in 0..MaxFaults /\ moves \in 0..MaxMoves
  /\ executed \in BOOLEAN

Init ==
  /\ server = "running" /\ op = [by |-> Nobody, kind |-> "none"]
  /\ result = [i \in Interactions |-> "none"]
  /\ granted = Users /\ toggle = TRUE
  /\ handler = [i \in Interactions |-> Unused]
  /\ confirmations = [i \in Interactions |-> NoEntry] /\ shown = {}
  /\ faults = 0 /\ moves = 0
  /\ settled = {} /\ executed = FALSE

Fault == faults < MaxFaults /\ faults' = faults + 1
Works == faults' = faults
At(i, pc) == handler[i].pc = pc
Goes(i, pc) == handler' = [handler EXCEPT ![i].pc = pc]
Ends(i) == Goes(i, "done")
Others == <<granted, toggle, moves, executed>>
-----------------------------------------------------------------------------
(* What happens around the handler.                                         *)

Move == moves < MaxMoves /\ moves' = moves + 1
Elsewhere == <<handler, messages, faults, settled, executed>>

\* The server crashes, or comes up outside; a command is not under way.
ServerMoves ==
  /\ Move /\ op.by = Nobody
  /\ \/ server = "running" /\ server' = "crashed"
     \/ server \in {"stopped", "error", "crashed"} /\ server' = "running"
  /\ UNCHANGED <<op, result, granted, toggle, Elsewhere>>

RoleMoves ==
  /\ Move
  /\ \E u \in Users : granted' = granted \ {u}
  /\ granted' # granted
  /\ UNCHANGED <<controller, toggle, Elsewhere>>

\* The embed is switched to another message; the old one stays on the screen.
ToggleMoves ==
  /\ Move /\ toggle /\ toggle' = FALSE
  /\ UNCHANGED <<controller, granted, Elsewhere>>

\* A command of the controller ends, whether its interaction still waits or not.
CommandEnds ==
  /\ op.by # Nobody /\ op' = [by |-> Nobody, kind |-> "none"]
  /\ \/ /\ result' = [result EXCEPT ![op.by] = "success"]
        /\ server' = IF op.kind = "start" THEN "running" ELSE "stopped"
     \/ /\ result' = [result EXCEPT ![op.by] = "failure"]
        /\ server' \in IF op.kind = "start" THEN {"stopped", "error", "crashed"}
                      ELSE {"stopped", "error"}
  /\ UNCHANGED <<granted, toggle, moves, Elsewhere>>

\* The time to live of a confirmation ends, ...
Expire(c) ==
  /\ confirmations[c].fresh /\ confirmations' = [confirmations EXCEPT ![c].fresh = FALSE]
  /\ UNCHANGED <<controller, granted, toggle, moves, handler, shown, faults, settled, executed>>

\* Mutant: the timer compares the wrong way.
DeleteIfNotExpired(c) ==
  /\ confirmations[c].user # Nobody /\ confirmations[c].fresh
  /\ confirmations' = [confirmations EXCEPT ![c] = NoEntry] /\ settled' = settled \cup {c}
  /\ UNCHANGED <<controller, granted, toggle, moves, handler, shown, faults, executed>>

\* ... and its timer removes it.
DeleteIfExpired(c) ==
  /\ confirmations[c].user # Nobody /\ ~confirmations[c].fresh
  /\ confirmations' = [confirmations EXCEPT ![c] = NoEntry] /\ settled' = settled \cup {c}
  /\ UNCHANGED <<controller, granted, toggle, moves, handler, shown, faults, executed>>

Around ==
  \/ ServerMoves \/ RoleMoves \/ ToggleMoves \/ CommandEnds
  \/ \E c \in Interactions : Expire(c) \/ DeleteIfExpired(c)
-----------------------------------------------------------------------------
(* The toggle.                                                              *)

\* An interaction is taken up in the trusted guild, by somebody whose roles it
\* carries. Elsewhere, without the role, or when it cannot be acknowledged, it
\* ends at once. The buttons of a confirmation look at the role later. A guild
\* whose roles cannot be read grants none.
Arrives(i, u, kind, about) ==
  /\ At(i, "unused")
  /\ \E trusted, role \in BOOLEAN :
       LET first == CASE kind = "toggle" -> "current" [] kind = "rcon" -> "rcon" [] OTHER -> "get"
           goesOn == trusted /\ (first = "get" \/ role)
       IN /\ (role = (u \in granted) /\ Works) \/ (u \in granted /\ ~role /\ Fault)
          /\ handler' = [handler EXCEPT ![i] =
               [pc |-> IF goesOn THEN first ELSE "done", kind |-> kind, user |-> u,
                role |-> role, about |-> about]]
  /\ UNCHANGED <<controller, messages, settled, Others>>

PressToggle(i, u) == Arrives(i, u, "toggle", Nobody)

\* isCurrentStatusToggle.
CheckToggle(i) ==
  /\ At(i, "current") /\ Goes(i, IF toggle THEN "presence" ELSE "done")
  /\ UNCHANGED <<controller, messages, faults, settled, Others>>

\* A server that is crashed or between two states is left alone.
ReadPresence(i) ==
  /\ At(i, "presence")
  /\ Goes(i, CASE server \in {"stopped", "error"} -> "start"
               [] server = "running"              -> "ask"
               [] OTHER                           -> "done")
  /\ UNCHANGED <<controller, messages, faults, settled, Others>>

\* The message with the two buttons is sent, ...
Ask(i) ==
  /\ At(i, "ask")
  /\ \/ Works /\ shown' = shown \cup {i} /\ Goes(i, "save")
     \/ Fault /\ shown' = shown /\ Ends(i)
  /\ UNCHANGED <<controller, confirmations, settled, Others>>

\* ... and then the confirmation is kept.
Save(i) ==
  /\ At(i, "save") /\ Ends(i)
  /\ confirmations' = [confirmations EXCEPT ![i] = [user |-> handler[i].user, fresh |-> TRUE]]
  /\ UNCHANGED <<controller, shown, faults, settled, Others>>

\* Controller.Start and Controller.Stop, with the gate of the state.
Begins(i, kind, from, to) ==
  /\ Goes(i, "wait")
  /\ IF server \in from
     THEN server' = to /\ op' = [by |-> i, kind |-> kind] /\ result' = result
     ELSE result' = [result EXCEPT ![i] = "failure"] /\ UNCHANGED <<server, op>>
  /\ UNCHANGED <<messages, faults, settled, Others>>

Start(i) == At(i, "start") /\ Begins(i, "start", {"stopped", "error", "crashed"}, "starting")

\* The result is told, or SERVER_OPERATION_TIMEOUT_SECONDS are over.
TellResult(i) ==
  /\ At(i, "wait") /\ Ends(i)
  /\ (result[i] # "none" /\ Works) \/ Fault
  /\ UNCHANGED <<controller, messages, settled, Others>>

Toggle(i) ==
  \/ CheckToggle(i) \/ ReadPresence(i) \/ Ask(i) \/ Save(i) \/ Start(i) \/ TellResult(i)
-----------------------------------------------------------------------------
(* The two buttons of a confirmation.                                       *)

\* A click on a message that is there, or was there when it was clicked.
Click(i, u, kind, c) ==
  /\ c \in shown /\ Arrives(i, u, kind, c)

About(i) == handler[i].about

\* Mutant: everybody may click.
GetAnybody(i) ==
  /\ At(i, "get")
  /\ LET entry == confirmations[About(i)]
         mine == entry.user # Nobody
     IN
     /\ confirmations' =
          IF entry.fresh THEN confirmations ELSE [confirmations EXCEPT ![About(i)] = NoEntry]
     /\ settled' = IF entry.user = Nobody \/ entry.fresh THEN settled ELSE settled \cup {About(i)}
     /\ Goes(i, IF ~entry.fresh \/ ~mine THEN "done"
                ELSE IF handler[i].kind = "confirm" /\ ~handler[i].role THEN "refuse"
                ELSE "message")
  /\ UNCHANGED <<controller, shown, faults, Others>>

\* Get drops what has expired. The user must be the one who asked; to confirm
\* takes the role as well.
Get(i) ==
  /\ At(i, "get")
  /\ LET entry == confirmations[About(i)]
         mine == entry.user = handler[i].user
     IN
     /\ confirmations' =
          IF entry.fresh THEN confirmations ELSE [confirmations EXCEPT ![About(i)] = NoEntry]
     /\ settled' = IF entry.user = Nobody \/ entry.fresh THEN settled ELSE settled \cup {About(i)}
     /\ Goes(i, IF ~entry.fresh \/ ~mine THEN "done"
                ELSE IF handler[i].kind = "confirm" /\ ~handler[i].role THEN "refuse"
                ELSE "message")
  /\ UNCHANGED <<controller, shown, faults, Others>>

\* A message that cannot be deleted stays, with its buttons.
DeleteMessage(i) ==
  /\ At(i, "message") /\ Goes(i, "respond")
  /\ (Works /\ shown' = shown \ {About(i)}) \/ (Fault /\ shown' = shown)
  /\ UNCHANGED <<controller, confirmations, settled, Others>>

\* A stop that cannot be answered is not carried out; a cancellation is.
Respond(i) ==
  /\ At(i, "respond")
  /\ \/ Works /\ Goes(i, "delete")
     \/ Fault /\ Goes(i, IF handler[i].kind = "confirm" THEN "refuse" ELSE "delete")
  /\ UNCHANGED <<controller, messages, settled, Others>>

\* Mutant: the confirmation is left to its timer.
DeleteNever(i) ==
  /\ handler[i].pc \in {"delete", "refuse"}
  /\ settled' = settled \cup {About(i)}
  /\ Goes(i, IF At(i, "delete") /\ handler[i].kind = "confirm" THEN "stop" ELSE "done")
  /\ UNCHANGED <<controller, confirmations, shown, faults, Others>>

Delete(i) ==
  /\ handler[i].pc \in {"delete", "refuse"}
  /\ confirmations' = [confirmations EXCEPT ![About(i)] = NoEntry]
  /\ settled' = settled \cup {About(i)}
  /\ Goes(i, IF At(i, "delete") /\ handler[i].kind = "confirm" THEN "stop" ELSE "done")
  /\ UNCHANGED <<controller, shown, faults, Others>>

Stop(i) == At(i, "stop") /\ Begins(i, "stop", {"running", "error", "crashed"}, "stopping")

Confirmation(i) == Get(i) \/ DeleteMessage(i) \/ Respond(i) \/ Delete(i) \/ Stop(i)
-----------------------------------------------------------------------------
(* /rcon: the server must run when it is looked at, not when the command is *)
(* sent.                                                                    *)

RconPresence(i) ==
  /\ At(i, "rcon") /\ Goes(i, IF server = "running" THEN "execute" ELSE "done")
  /\ UNCHANGED <<controller, messages, faults, settled, Others>>

Execute(i) ==
  /\ At(i, "execute") /\ Ends(i) /\ executed' = TRUE
  /\ UNCHANGED <<controller, messages, faults, settled, granted, toggle, moves>>

Next ==
  \/ Around
  \/ \E i \in Interactions, u \in Users :
       \/ PressToggle(i, u) \/ Arrives(i, u, "rcon", Nobody)
       \/ \E c \in Interactions, kind \in {"confirm", "cancel"} : Click(i, u, kind, c)
  \/ \E i \in Interactions : Toggle(i) \/ Confirmation(i) \/ RconPresence(i) \/ Execute(i)

Spec == Init /\ [][Next]_vars
\* A confirmation expires, and its timer runs.
FairSpec ==
  Spec /\ \A c \in Interactions : WF_vars(Expire(c)) /\ WF_vars(DeleteIfExpired(c))
-----------------------------------------------------------------------------
(* The server is stopped by a confirmed request alone: by a click of the    *)
(* user who pressed the toggle, who had the role both times.                *)
StopIsConfirmed ==
  [][server' = "stopping" /\ server # "stopping" =>
       LET i == op'.by
           c == handler[i].about
       IN /\ handler[i].kind = "confirm" /\ handler[i].role
          /\ handler[c].kind = "toggle" /\ handler[c].role
          /\ handler[c].user = handler[i].user
          /\ c \in settled]_vars

(* A confirmation that was carried out, cancelled, refused or has expired   *)
(* is never accepted again, also by a click that was made before: only      *)
(* clicks that overlap can both be accepted.                                *)
NoReplay ==
  [][\A i \in Interactions :
       At(i, "get") /\ handler'[i].pc \in {"message", "refuse"} => About(i) \notin settled]_vars

(* The store does not grow: a confirmation nobody answers goes by itself.   *)
StoreDrains ==
  \A c \in Interactions : confirmations[c].user # Nobody ~> confirmations[c].user = Nobody

(* One confirmation stops the server once. It does not hold of two clicks   *)
(* that overlap, with a start of the server between their stops.            *)
OneStop ==
  \A i, j \in Interactions :
    i # j /\ About(i) = About(j) /\ handler[i].kind = "confirm" /\ handler[j].kind = "confirm" =>
      ~(result[i] = "success" /\ result[j] = "success")
=============================================================================
