------------------------ MODULE ControlPanelProofs --------------------------
(***************************************************************************)
(* The types of ControlPanel; no confirmation is accepted after it was     *)
(* settled (NoReplay), and every stop was confirmed by the user who asked  *)
(* for it (StopIsConfirmed): for any number of users and interactions.     *)
(* The last two follow from what a handler knows of the confirmation that  *)
(* it is about (PanelInv).                                                 *)
(***************************************************************************)
EXTENDS ControlPanel, TLAPS

LEMMA NobodyIsNobody == Nobody \notin Interactions /\ Nobody \notin Users
  BY NobodyAssumption

LEMMA Bounds == MaxFaults \in Nat /\ MaxMoves \in Nat
  BY BoundsAssumption

LEMMA FaultTypes ==
  ASSUME faults \in 0..MaxFaults PROVE Fault \/ Works => faults' \in 0..MaxFaults
  BY Bounds DEF Fault, Works

LEMMA MoveTypes ==
  ASSUME moves \in 0..MaxMoves, Move PROVE moves' \in 0..MaxMoves
  BY Bounds DEF Move

\* A handler that goes on keeps everything but its place.
LEMMA GoesOn ==
  ASSUME handler \in [Interactions -> HandlerType], NEW i \in Interactions,
         NEW pc \in {"current", "presence", "start", "ask", "save", "get", "refuse",
                     "message", "respond", "delete", "stop", "wait", "rcon", "execute", "done"},
         Goes(i, pc)
  PROVE  /\ handler' \in [Interactions -> HandlerType]
         /\ handler'[i].pc = pc /\ handler'[i].kind = handler[i].kind
         /\ handler'[i].user = handler[i].user /\ handler'[i].role = handler[i].role
         /\ handler'[i].about = handler[i].about
         /\ \A j \in Interactions : j # i => handler'[j] = handler[j]
BY DEF Goes, HandlerType

LEMMA EntryTypes == NoEntry \in EntryType /\ Unused \in HandlerType
  BY DEF NoEntry, Unused, EntryType, HandlerType

LEMMA AroundTypes ==
  ASSUME TypeOK, Around PROVE TypeOK'
<1>1. CASE ServerMoves
  BY <1>1, MoveTypes DEF ServerMoves, TypeOK, Elsewhere, messages
<1>2. CASE RoleMoves
  BY <1>2, MoveTypes DEF RoleMoves, TypeOK, Elsewhere, controller, messages
<1>3. CASE ToggleMoves
  BY <1>3, MoveTypes DEF ToggleMoves, TypeOK, Elsewhere, controller, messages
<1>4. CASE CommandEnds
  <2>1. op' \in OpType
    BY <1>4 DEF CommandEnds, OpType
  <2>2. result' \in [Interactions -> {"none", "success", "failure"}]
    BY <1>4 DEF CommandEnds, TypeOK
  <2> QED BY <1>4, <2>1, <2>2 DEF CommandEnds, TypeOK, Elsewhere, messages
<1>5. ASSUME NEW c \in Interactions, Expire(c) PROVE TypeOK'
  <2>1. confirmations' \in [Interactions -> EntryType]
    BY <1>5 DEF Expire, TypeOK, EntryType
  <2> QED BY <1>5, <2>1 DEF Expire, TypeOK, controller
<1>6. ASSUME NEW c \in Interactions, DeleteIfExpired(c) PROVE TypeOK'
  <2>1. confirmations' \in [Interactions -> EntryType]
    BY <1>6, EntryTypes DEF DeleteIfExpired, TypeOK
  <2> QED BY <1>6, <2>1 DEF DeleteIfExpired, TypeOK, controller
<1> QED BY <1>1, <1>2, <1>3, <1>4, <1>5, <1>6 DEF Around

\* Whatever kind of interaction arrives.
LEMMA ArrivesTypes ==
  ASSUME TypeOK, NEW i \in Interactions, NEW u \in Users,
         NEW kind \in {"toggle", "confirm", "cancel", "rcon"},
         NEW about \in Interactions \cup {Nobody}, Arrives(i, u, kind, about)
  PROVE  TypeOK'
<1>1. handler' \in [Interactions -> HandlerType]
  BY DEF Arrives, TypeOK, HandlerType
<1>2. faults' \in 0..MaxFaults
  BY FaultTypes DEF Arrives, TypeOK
<1> QED BY <1>1, <1>2 DEF Arrives, TypeOK, controller, messages, Others

LEMMA BeginsTypes ==
  ASSUME TypeOK, NEW i \in Interactions, NEW kind \in {"start", "stop"}, NEW from,
         NEW to \in {"starting", "stopping"}, Begins(i, kind, from, to)
  PROVE  TypeOK'
<1>1. op' \in OpType
  BY DEF Begins, TypeOK, OpType
<1>2. result' \in [Interactions -> {"none", "success", "failure"}]
  BY DEF Begins, TypeOK
<1>3. handler' \in [Interactions -> HandlerType]
  BY GoesOn DEF Begins, TypeOK
<1> QED BY <1>1, <1>2, <1>3 DEF Begins, TypeOK, messages, Others

LEMMA HandlerTypes ==
  ASSUME TypeOK, NEW i \in Interactions,
         Toggle(i) \/ Confirmation(i) \/ RconPresence(i) \/ Execute(i)
  PROVE  TypeOK'
<1>1. CASE CheckToggle(i)
  <2>1. handler' \in [Interactions -> HandlerType]
    BY <1>1, GoesOn DEF CheckToggle, TypeOK, Ends
  <2> QED BY <1>1, <2>1 DEF CheckToggle, TypeOK, controller, messages, Others
<1>2. CASE ReadPresence(i)
  <2>1. handler' \in [Interactions -> HandlerType]
    BY <1>2, GoesOn DEF ReadPresence, TypeOK, Ends
  <2> QED BY <1>2, <2>1 DEF ReadPresence, TypeOK, controller, messages, Others
<1>3. CASE Ask(i)
  <2>1. handler' \in [Interactions -> HandlerType]
    BY <1>3, GoesOn DEF Ask, TypeOK, Ends
  <2>2. faults' \in 0..MaxFaults
    BY <1>3, FaultTypes DEF Ask, TypeOK
  <2> QED BY <1>3, <2>1, <2>2 DEF Ask, TypeOK, controller, messages, Others
<1>4. CASE Save(i)
  <2>1. handler' \in [Interactions -> HandlerType]
    BY <1>4, GoesOn DEF Save, TypeOK, Ends
  <2>2. confirmations' \in [Interactions -> EntryType]
    BY <1>4, EntryTypes DEF Save, TypeOK, EntryType, HandlerType, About
  <2> QED BY <1>4, <2>1, <2>2 DEF Save, TypeOK, controller, messages, Others
<1>5. CASE Start(i)
  BY <1>5, BeginsTypes DEF Start
<1>6. CASE TellResult(i)
  <2>1. handler' \in [Interactions -> HandlerType]
    BY <1>6, GoesOn DEF TellResult, TypeOK, Ends
  <2>2. faults' \in 0..MaxFaults
    BY <1>6, FaultTypes DEF TellResult, TypeOK
  <2> QED BY <1>6, <2>1, <2>2 DEF TellResult, TypeOK, controller, messages, Others
<1>7. CASE Get(i)
  <2>1. handler' \in [Interactions -> HandlerType]
    BY <1>7, GoesOn DEF Get, TypeOK, Ends
  <2>2. confirmations' \in [Interactions -> EntryType]
    BY <1>7, EntryTypes DEF Get, TypeOK, EntryType, HandlerType, About
  <2>3. settled' \subseteq Interactions \cup {Nobody}
    BY <1>7 DEF Get, TypeOK, About, HandlerType
  <2> QED BY <1>7, <2>1, <2>2, <2>3 DEF Get, TypeOK, controller, messages, Others
<1>8. CASE DeleteMessage(i)
  <2>1. handler' \in [Interactions -> HandlerType]
    BY <1>8, GoesOn DEF DeleteMessage, TypeOK, Ends
  <2>2. faults' \in 0..MaxFaults
    BY <1>8, FaultTypes DEF DeleteMessage, TypeOK
  <2> QED BY <1>8, <2>1, <2>2 DEF DeleteMessage, TypeOK, controller, messages, Others
<1>9. CASE Respond(i)
  <2>1. handler' \in [Interactions -> HandlerType]
    BY <1>9, GoesOn DEF Respond, TypeOK, Ends
  <2>2. faults' \in 0..MaxFaults
    BY <1>9, FaultTypes DEF Respond, TypeOK
  <2> QED BY <1>9, <2>1, <2>2 DEF Respond, TypeOK, controller, messages, Others
<1>10. CASE Delete(i)
  <2>1. handler' \in [Interactions -> HandlerType]
    BY <1>10, GoesOn DEF Delete, TypeOK, Ends
  <2>2. confirmations' \in [Interactions -> EntryType]
    BY <1>10, EntryTypes DEF Delete, TypeOK, EntryType, HandlerType, About
  <2>3. settled' \subseteq Interactions \cup {Nobody}
    BY <1>10 DEF Delete, TypeOK, About, HandlerType
  <2> QED BY <1>10, <2>1, <2>2, <2>3 DEF Delete, TypeOK, controller, messages, Others
<1>11. CASE Stop(i)
  BY <1>11, BeginsTypes DEF Stop
<1>12. CASE RconPresence(i)
  <2>1. handler' \in [Interactions -> HandlerType]
    BY <1>12, GoesOn DEF RconPresence, TypeOK, Ends
  <2> QED BY <1>12, <2>1 DEF RconPresence, TypeOK, controller, messages, Others
<1>13. CASE Execute(i)
  <2>1. handler' \in [Interactions -> HandlerType]
    BY <1>13, GoesOn DEF Execute, TypeOK, Ends
  <2> QED BY <1>13, <2>1 DEF Execute, TypeOK, controller, messages, Others
<1> QED
  BY <1>1, <1>2, <1>3, <1>4, <1>5, <1>6, <1>7, <1>8, <1>9, <1>10, <1>11, <1>12, <1>13
     DEF Toggle, Confirmation

(* Every variable keeps its type.                                           *)
THEOREM TypeCorrect == Spec => []TypeOK
<1>1. Init => TypeOK
  <2> SUFFICES ASSUME Init PROVE TypeOK
    OBVIOUS
  <2>1. 0 \in 0..MaxFaults /\ 0 \in 0..MaxMoves
    BY Bounds
  <2>2. op \in OpType /\ result \in [Interactions -> {"none", "success", "failure"}]
    BY DEF Init, OpType
  <2>3. /\ handler \in [Interactions -> HandlerType]
        /\ confirmations \in [Interactions -> EntryType]
    BY EntryTypes DEF Init
  <2> QED BY <2>1, <2>2, <2>3 DEF Init, TypeOK
<1>2. TypeOK /\ [Next]_vars => TypeOK'
  <2> SUFFICES ASSUME TypeOK, [Next]_vars PROVE TypeOK'
    OBVIOUS
  <2>1. ASSUME NEW i \in Interactions, NEW u \in Users,
               \/ PressToggle(i, u) \/ Arrives(i, u, "rcon", Nobody)
               \/ \E c \in Interactions, kind \in {"confirm", "cancel"} : Click(i, u, kind, c)
        PROVE  TypeOK'
    BY <2>1, ArrivesTypes DEF PressToggle, Click
  <2>2. CASE UNCHANGED vars
    BY <2>2 DEF vars, controller, messages, TypeOK
  <2> QED BY <2>1, <2>2, AroundTypes, HandlerTypes DEF Next
<1> QED BY <1>1, <1>2, PTL DEF Spec
-----------------------------------------------------------------------------
(* What a handler and a confirmation know of each other.                    *)

Known(i) == handler[i].pc # "unused" => handler[i].user \in Users
Asking(i) ==
  handler[i].pc \in {"current", "presence", "ask", "save"} =>
    handler[i].kind = "toggle" /\ handler[i].role = TRUE
\* c was asked for by u, whose handler has ended.
Requested(c, u) ==
  /\ c \in Interactions /\ handler[c].pc = "done" /\ handler[c].kind = "toggle"
  /\ handler[c].role = TRUE /\ handler[c].user = u
Kept(c) ==
  /\ confirmations[c].user # Nobody => Requested(c, confirmations[c].user)
  /\ confirmations[c].fresh = TRUE => confirmations[c].user # Nobody /\ c \notin settled
Past(c) == c \in settled => handler[c].pc = "done"
Accepted(i) ==
  /\ handler[i].pc = "get" => handler[i].about \in Interactions
  /\ handler[i].pc \in {"message", "respond", "delete", "refuse", "stop"} =>
       Requested(handler[i].about, handler[i].user)
Confirmed(i) ==
  /\ handler[i].pc \in {"message", "respond", "delete"} /\ handler[i].kind = "confirm" =>
       handler[i].role = TRUE
  /\ handler[i].pc = "stop" =>
       handler[i].kind = "confirm" /\ handler[i].role = TRUE /\ handler[i].about \in settled

Mine(i) == Known(i) /\ Asking(i) /\ Accepted(i) /\ Confirmed(i)
PanelInv == \A i \in Interactions : Mine(i) /\ Kept(i) /\ Past(i)

\* A step that moves the handler of i at most, which had not ended, and that
\* removes confirmations of ended handlers alone: i must look after itself,
\* everybody else is safe.
LEMMA Proceeds ==
  ASSUME PanelInv, NEW i \in Interactions,
         handler'[i] = handler[i] \/ (handler[i].pc # "done" /\ Mine(i)'),
         \A j \in Interactions \ {i} : handler'[j] = handler[j],
         settled \subseteq settled',
         \A c \in Interactions :
           \/ confirmations'[c] = confirmations[c] /\ (c \in settled' => c \in settled)
           \/ confirmations'[c] = NoEntry /\ handler[c].pc = "done"
  PROVE  PanelInv'
<1> SUFFICES ASSUME NEW j \in Interactions PROVE (Mine(j) /\ Kept(j) /\ Past(j))'
  BY DEF PanelInv
<1>1. \A c, u : Requested(c, u) => Requested(c, u)'
  BY DEF Requested
<1>2. Kept(j)'
  BY <1>1 DEF PanelInv, Kept, NoEntry
<1>3. Past(j)'
  BY DEF PanelInv, Past
<1>4. Mine(j)'
  <2>1. CASE j = i /\ Mine(i)'
    BY <2>1
  <2>2. CASE handler'[j] = handler[j]
    BY <2>2, <1>1 DEF PanelInv, Mine, Known, Asking, Accepted, Confirmed
  <2> QED BY <2>1, <2>2
<1> QED BY <1>2, <1>3, <1>4

LEMMA AroundKeeps ==
  ASSUME TypeOK, PanelInv, Around PROVE PanelInv'
<1>1. CASE ServerMoves \/ RoleMoves \/ ToggleMoves \/ CommandEnds
  <2>1. UNCHANGED <<handler, confirmations, settled>>
    BY <1>1 DEF ServerMoves, RoleMoves, ToggleMoves, CommandEnds, Elsewhere, messages
  <2> SUFFICES ASSUME NEW i \in Interactions PROVE PanelInv'
    BY DEF PanelInv
  <2> QED BY <2>1, Proceeds
<1>2. ASSUME NEW c \in Interactions, Expire(c) PROVE PanelInv'
  <2> SUFFICES ASSUME NEW j \in Interactions PROVE (Mine(j) /\ Kept(j) /\ Past(j))'
    BY DEF PanelInv
  <2>1. /\ confirmations'[j].user = confirmations[j].user
        /\ confirmations'[j].fresh = TRUE => confirmations[j].fresh = TRUE
    BY <1>2 DEF Expire, TypeOK, EntryType
  <2>2. UNCHANGED <<handler, settled>>
    BY <1>2 DEF Expire
  <2>3. Kept(j)'
    BY <2>1, <2>2 DEF PanelInv, Kept, Requested
  <2> QED
    BY <2>2, <2>3 DEF PanelInv, Past, Mine, Known, Asking, Accepted, Requested, Confirmed
<1>3. ASSUME NEW c \in Interactions, DeleteIfExpired(c) PROVE PanelInv'
  <2>1. handler[c].pc = "done"
    BY <1>3 DEF DeleteIfExpired, PanelInv, Kept, Requested
  <2> QED BY <1>3, <2>1, Proceeds DEF DeleteIfExpired, TypeOK
<1> QED BY <1>1, <1>2, <1>3 DEF Around

LEMMA ArrivesKeeps ==
  ASSUME TypeOK, PanelInv, NEW i \in Interactions, NEW u \in Users,
         NEW kind \in {"toggle", "confirm", "cancel", "rcon"},
         NEW about \in Interactions \cup {Nobody},
         kind \in {"confirm", "cancel"} => about \in Interactions,
         Arrives(i, u, kind, about)
  PROVE  PanelInv'
<1>1. PICK trusted, role \in BOOLEAN :
        handler' = [handler EXCEPT ![i] =
          [pc |-> IF trusted /\ (kind \in {"confirm", "cancel"} \/ role)
                  THEN CASE kind = "toggle" -> "current" [] kind = "rcon" -> "rcon" [] OTHER -> "get"
                  ELSE "done",
           kind |-> kind, user |-> u, role |-> role, about |-> about]]
  BY DEF Arrives
<1>2. Mine(i)'
  BY <1>1 DEF TypeOK, Mine, Known, Asking, Accepted, Confirmed
<1>3. handler[i].pc # "done" /\ \A j \in Interactions \ {i} : handler'[j] = handler[j]
  BY <1>1 DEF Arrives, At, TypeOK
<1> QED BY <1>2, <1>3, Proceeds DEF Arrives, messages

\* The steps that leave the store alone.
LEMMA OnwardKeeps ==
  ASSUME TypeOK, PanelInv, NEW i \in Interactions,
         \/ CheckToggle(i) \/ ReadPresence(i) \/ Ask(i) \/ Start(i) \/ TellResult(i)
         \/ DeleteMessage(i) \/ Respond(i) \/ Stop(i) \/ RconPresence(i) \/ Execute(i)
  PROVE  PanelInv'
<1>1. Mine(i) /\ handler \in [Interactions -> HandlerType]
  BY DEF PanelInv, TypeOK
<1>2. \A c, u : Requested(c, u) /\ handler[i].pc # "done" /\ (\A j \in Interactions \ {i} : handler'[j] = handler[j])
        => Requested(c, u)'
  BY DEF Requested
<1>3. UNCHANGED <<confirmations, settled>>
  BY DEF CheckToggle, ReadPresence, Ask, Start, TellResult, DeleteMessage, Respond, Stop,
    RconPresence, Execute, Begins, messages
<1>4. handler[i].pc # "done" /\ \A j \in Interactions \ {i} : handler'[j] = handler[j]
  BY <1>1, GoesOn DEF CheckToggle, ReadPresence, Ask, Start, TellResult, DeleteMessage,
    Respond, Stop, RconPresence, Execute, Begins, At, Goes, Ends
<1>5. ASSUME Mine(i)' PROVE PanelInv'
  BY <1>3, <1>4, <1>5, Proceeds
<1>6. CASE CheckToggle(i)
  <2>1. Mine(i)'
    BY <1>6, <1>1, <1>2, <1>3, <1>4, GoesOn DEF CheckToggle, Mine, Known, Asking, Accepted,
       Confirmed, At, Ends
  <2> QED BY <2>1, <1>5
<1>7. CASE ReadPresence(i)
  <2>1. Mine(i)'
    BY <1>7, <1>1, <1>2, <1>3, <1>4, GoesOn DEF ReadPresence, Mine, Known, Asking, Accepted,
       Confirmed, At, Ends
  <2> QED BY <2>1, <1>5
<1>8. CASE Ask(i)
  <2>1. Mine(i)'
    BY <1>8, <1>1, <1>2, <1>3, <1>4, GoesOn DEF Ask, Mine, Known, Asking, Accepted, Confirmed,
       At, Ends
  <2> QED BY <2>1, <1>5
<1>9. CASE Start(i)
  <2>1. Mine(i)'
    BY <1>9, <1>1, <1>2, <1>3, <1>4, GoesOn DEF Start, Mine, Known, Asking, Accepted, Confirmed,
       At, Begins
  <2> QED BY <2>1, <1>5
<1>10. CASE TellResult(i)
  <2>1. Mine(i)'
    BY <1>10, <1>1, <1>2, <1>3, <1>4, GoesOn DEF TellResult, Mine, Known, Asking, Accepted,
       Confirmed, At, Ends
  <2> QED BY <2>1, <1>5
<1>11. CASE DeleteMessage(i)
  <2>1. Mine(i)'
    BY <1>11, <1>1, <1>2, <1>3, <1>4, GoesOn DEF DeleteMessage, Mine, Known, Asking, Accepted,
       Confirmed, At
  <2> QED BY <2>1, <1>5
<1>12. CASE Respond(i)
  <2>1. Mine(i)'
    BY <1>12, <1>1, <1>2, <1>3, <1>4, GoesOn DEF Respond, Mine, Known, Asking, Accepted,
       Confirmed, At
  <2> QED BY <2>1, <1>5
<1>13. CASE Stop(i)
  <2>1. Mine(i)'
    BY <1>13, <1>1, <1>2, <1>3, <1>4, GoesOn DEF Stop, Mine, Known, Asking, Accepted, Confirmed,
       At, Begins
  <2> QED BY <2>1, <1>5
<1>14. CASE RconPresence(i)
  <2>1. Mine(i)'
    BY <1>14, <1>1, <1>2, <1>3, <1>4, GoesOn DEF RconPresence, Mine, Known, Asking, Accepted,
       Confirmed, At, Ends
  <2> QED BY <2>1, <1>5
<1>15. CASE Execute(i)
  <2>1. Mine(i)'
    BY <1>15, <1>1, <1>2, <1>3, <1>4, GoesOn DEF Execute, Mine, Known, Asking, Accepted,
       Confirmed, At, Ends
  <2> QED BY <2>1, <1>5
<1> QED BY <1>6, <1>7, <1>8, <1>9, <1>10, <1>11, <1>12, <1>13, <1>14, <1>15

\* A confirmation is kept once, before it can be settled.
LEMMA SaveKeeps ==
  ASSUME TypeOK, PanelInv, NEW i \in Interactions, Save(i)
  PROVE  PanelInv'
<1>1. /\ handler'[i].pc = "done" /\ handler[i].pc = "save"
      /\ handler'[i].kind = handler[i].kind /\ handler'[i].user = handler[i].user
      /\ handler'[i].role = handler[i].role
      /\ \A j \in Interactions : j # i => handler'[j] = handler[j]
  BY GoesOn DEF Save, Ends, At, TypeOK
<1>2. /\ confirmations'[i] = [user |-> handler[i].user, fresh |-> TRUE]
      /\ \A j \in Interactions : j # i => confirmations'[j] = confirmations[j]
      /\ settled' = settled
  BY DEF Save, TypeOK
<1>3. \A c, u : Requested(c, u) => Requested(c, u)'
  BY <1>1 DEF Requested
<1> SUFFICES ASSUME NEW j \in Interactions PROVE (Mine(j) /\ Kept(j) /\ Past(j))'
  BY DEF PanelInv
<1>4. Mine(j)'
  <2>1. CASE j = i
    BY <2>1, <1>1 DEF PanelInv, Mine, Known, Asking, Accepted, Confirmed
  <2>2. CASE j # i
    BY <2>2, <1>1, <1>2, <1>3 DEF PanelInv, Mine, Known, Asking, Accepted, Confirmed
  <2> QED BY <2>1, <2>2
<1>5. Past(j)'
  BY <1>1, <1>2 DEF PanelInv, Past
<1>6. Kept(j)'
  <2>1. CASE j = i
    <3>1. handler[i].user \in Users /\ handler[i].kind = "toggle" /\ handler[i].role = TRUE
      BY <1>1 DEF PanelInv, Mine, Known, Asking
    <3>2. i \notin settled'
      BY <1>1, <1>2 DEF PanelInv, Past
    <3>3. Requested(i, handler[i].user)'
      BY <1>1, <3>1 DEF Requested
    <3> QED BY <2>1, <1>1, <1>2, <3>1, <3>2, <3>3, NobodyIsNobody DEF Kept
  <2>2. CASE j # i
    BY <2>2, <1>2, <1>3 DEF PanelInv, Kept
  <2> QED BY <2>1, <2>2
<1> QED BY <1>4, <1>5, <1>6

\* Whoever is accepted is the user who asked, and his handler has ended.
LEMMA GetKeeps ==
  ASSUME TypeOK, PanelInv, NEW i \in Interactions, Get(i)
  PROVE  PanelInv'
<1> DEFINE c == handler[i].about
           entry == confirmations[c]
<1>1. c \in Interactions
  BY DEF Get, At, PanelInv, Mine, Accepted
<1>2. \A j \in Interactions \ {i} : handler'[j] = handler[j]
  BY DEF Get, Goes, TypeOK
<1>3. entry.user # Nobody => Requested(c, entry.user) /\ c # i
  BY <1>1 DEF PanelInv, Kept, Requested, Get, At
<1>4. Mine(i)'
  <2>1. /\ handler'[i].kind = handler[i].kind /\ handler'[i].user = handler[i].user
        /\ handler'[i].role = handler[i].role /\ handler'[i].about = c
        /\ handler'[i].pc \in {"done", "refuse", "message"}
        /\ handler'[i].pc # "done" => entry.fresh = TRUE /\ entry.user = handler[i].user
        /\ handler'[i].pc = "message" /\ handler[i].kind = "confirm" => handler[i].role = TRUE
    <3>1. entry.fresh \in BOOLEAN /\ handler[i].role \in BOOLEAN
      BY <1>1 DEF TypeOK, HandlerType, EntryType
    <3>2. PICK pc \in {"done", "refuse", "message"} :
            /\ Goes(i, pc)
            /\ pc # "done" => entry.fresh = TRUE /\ entry.user = handler[i].user
            /\ pc = "message" /\ handler[i].kind = "confirm" => handler[i].role = TRUE
      <4>1. CASE entry.fresh = FALSE \/ entry.user # handler[i].user
        <5>1. Goes(i, "done")
          BY <4>1 DEF Get, About
        <5> QED BY <5>1
      <4>2. CASE entry.fresh = TRUE /\ entry.user = handler[i].user
        <5>1. CASE handler[i].kind = "confirm" /\ handler[i].role = FALSE
          <6>1. Goes(i, "refuse")
            BY <4>2, <5>1 DEF Get, About
          <6> QED BY <4>2, <6>1
        <5>2. CASE ~(handler[i].kind = "confirm" /\ handler[i].role = FALSE)
          <6>1. Goes(i, "message")
            BY <3>1, <4>2, <5>2 DEF Get, About
          <6> QED BY <3>1, <4>2, <5>2, <6>1
        <5> QED BY <5>1, <5>2
      <4> QED BY <3>1, <4>1, <4>2
    <3> QED BY <3>2, GoesOn DEF TypeOK
  <2>2. handler[i].user \in Users
    BY DEF Get, At, PanelInv, Mine, Known
  <2>3. handler'[i].pc # "done" => Requested(c, handler[i].user)'
    BY <1>1, <1>2, <1>3, <2>1, <2>2, NobodyIsNobody DEF Requested
  <2> QED BY <2>1, <2>2, <2>3 DEF Mine, Known, Asking, Accepted, Confirmed
<1>5. \A d \in Interactions :
        \/ confirmations'[d] = confirmations[d] /\ (d \in settled' => d \in settled)
        \/ confirmations'[d] = NoEntry /\ handler[d].pc = "done"
  <2> SUFFICES ASSUME NEW d \in Interactions
               PROVE  \/ confirmations'[d] = confirmations[d] /\ (d \in settled' => d \in settled)
                      \/ confirmations'[d] = NoEntry /\ handler[d].pc = "done"
    OBVIOUS
  <2>1. CASE d # c \/ entry.fresh = TRUE
    BY <1>1, <2>1 DEF Get, About, TypeOK
  <2>2. CASE d = c /\ entry.user # Nobody /\ entry.fresh = FALSE
    BY <1>1, <1>3, <2>2 DEF Get, About, TypeOK, Requested
  <2>3. CASE d = c /\ entry.user = Nobody /\ entry.fresh = FALSE
    <3>1. entry = NoEntry
      BY <1>1, <2>3 DEF TypeOK, EntryType, NoEntry
    <3> QED BY <1>1, <2>3, <3>1 DEF Get, About, TypeOK
  <2> QED BY <1>1, <2>1, <2>2, <2>3 DEF TypeOK, EntryType
<1> QED BY <1>2, <1>4, <1>5, Proceeds DEF Get, At

\* A confirmation is settled before it stops the server.
LEMMA DeleteKeeps ==
  ASSUME TypeOK, PanelInv, NEW i \in Interactions, Delete(i)
  PROVE  PanelInv'
<1>1. Requested(handler[i].about, handler[i].user) /\ handler[i].user \in Users
  BY DEF Delete, PanelInv, Mine, Known, Accepted
<1>2. \A j \in Interactions \ {i} : handler'[j] = handler[j]
  BY DEF Delete, Goes, TypeOK
<1>3. handler[i].about # i
  BY <1>1 DEF Requested, Delete
<1>4. Mine(i)'
  <2>1. /\ handler'[i].kind = handler[i].kind /\ handler'[i].user = handler[i].user
        /\ handler'[i].role = handler[i].role /\ handler'[i].about = handler[i].about
        /\ handler'[i].pc \in {"done", "stop"}
        /\ handler'[i].pc = "stop" => handler[i].pc = "delete" /\ handler[i].kind = "confirm"
    BY DEF Delete, Goes, At, TypeOK, HandlerType
  <2>2. handler[i].about \in settled'
    BY DEF Delete, About
  <2>3. Requested(handler[i].about, handler[i].user)'
    BY <1>1, <1>2, <1>3, <2>1 DEF Requested
  <2> QED
    BY <1>1, <2>1, <2>2, <2>3 DEF PanelInv, Mine, Known, Asking, Accepted, Confirmed
<1>5. \A d \in Interactions :
        \/ confirmations'[d] = confirmations[d] /\ (d \in settled' => d \in settled)
        \/ confirmations'[d] = NoEntry /\ handler[d].pc = "done"
  BY <1>1 DEF Delete, About, Requested, TypeOK
<1> QED BY <1>2, <1>4, <1>5, Proceeds DEF Delete

LEMMA PanelInvariance == Spec => [](TypeOK /\ PanelInv)
<1>1. Init => PanelInv
  BY DEF Init, PanelInv, Mine, Known, Asking, Accepted, Confirmed, Kept, Past, Unused, NoEntry
<1>2. TypeOK /\ PanelInv /\ [Next]_vars => PanelInv'
  <2> SUFFICES ASSUME TypeOK, PanelInv, [Next]_vars PROVE PanelInv'
    OBVIOUS
  <2>1. ASSUME NEW i \in Interactions, NEW u \in Users,
               \/ PressToggle(i, u) \/ Arrives(i, u, "rcon", Nobody)
               \/ \E c \in Interactions, kind \in {"confirm", "cancel"} : Click(i, u, kind, c)
        PROVE  PanelInv'
    BY <2>1, ArrivesKeeps DEF PressToggle, Click
  <2>2. ASSUME NEW i \in Interactions,
               Toggle(i) \/ Confirmation(i) \/ RconPresence(i) \/ Execute(i)
        PROVE  PanelInv'
    BY <2>2, OnwardKeeps, SaveKeeps, GetKeeps, DeleteKeeps DEF Toggle, Confirmation
  <2>3. CASE UNCHANGED vars
    <3> SUFFICES ASSUME NEW i \in Interactions PROVE PanelInv'
      BY DEF PanelInv
    <3> QED BY <2>3, Proceeds DEF vars, messages
  <2> QED BY <2>1, <2>2, <2>3, AroundKeeps DEF Next
<1> QED BY <1>1, <1>2, TypeCorrect, PTL DEF Spec
-----------------------------------------------------------------------------
\* Who moves a handler, and from where.
LEMMA OnlyGet ==
  ASSUME TypeOK, Next, NEW i \in Interactions, At(i, "get"), handler'[i] # handler[i]
  PROVE  Get(i)
<1>1. ASSUME Around PROVE FALSE
  BY <1>1 DEF Around, ServerMoves, RoleMoves, ToggleMoves, CommandEnds, Expire,
    DeleteIfExpired, Elsewhere
<1>2. ASSUME NEW j \in Interactions, NEW u, NEW kind, NEW about, Arrives(j, u, kind, about)
      PROVE  FALSE
  BY <1>2 DEF Arrives, At, TypeOK
<1>3. ASSUME NEW j \in Interactions, NEW pc, Goes(j, pc) PROVE i = j
  BY <1>3 DEF Goes, TypeOK
<1>4. ASSUME NEW j \in Interactions, Toggle(j) \/ RconPresence(j) \/ Execute(j) PROVE FALSE
  BY <1>3, <1>4 DEF Toggle, CheckToggle, ReadPresence, Ask, Save, Start, TellResult, Begins,
    RconPresence, Execute, Ends, At
<1>5. ASSUME NEW j \in Interactions, Confirmation(j) PROVE Get(i)
  BY <1>3, <1>5 DEF Confirmation, DeleteMessage, Respond, Delete, Stop, Begins, Get, At
<1> QED BY <1>1, <1>2, <1>4, <1>5 DEF Next, PressToggle, Click

(* A confirmation that was carried out, cancelled, refused or has expired   *)
(* is never accepted again.                                                 *)
THEOREM NothingReplayed == Spec => NoReplay
<1>1. TypeOK /\ PanelInv /\ [Next]_vars =>
        [\A i \in Interactions :
           At(i, "get") /\ handler'[i].pc \in {"message", "refuse"} => About(i) \notin settled]_vars
  <2> SUFFICES ASSUME TypeOK, PanelInv, Next, NEW i \in Interactions,
                      At(i, "get"), handler'[i].pc \in {"message", "refuse"}
               PROVE  About(i) \notin settled
    OBVIOUS
  <2>1. Get(i)
    BY OnlyGet DEF At
  <2>2. About(i) \in Interactions
    BY DEF At, About, PanelInv, Mine, Accepted
  <2>3. confirmations[About(i)].fresh
    <3> SUFFICES ASSUME ~confirmations[About(i)].fresh PROVE FALSE
      OBVIOUS
    <3>1. Goes(i, "done")
      BY <2>1 DEF Get
    <3> QED BY <3>1, GoesOn DEF TypeOK
  <2>4. confirmations[About(i)].fresh = TRUE
    BY <2>2, <2>3 DEF TypeOK, EntryType
  <2> QED BY <2>2, <2>4 DEF PanelInv, Kept
<1> QED BY <1>1, PanelInvariance, PTL DEF Spec, NoReplay

(* Every stop was confirmed by a click of the user who had asked for it,    *)
(* who had the role both times; its confirmation was settled before.        *)
THEOREM StopsAreConfirmed == Spec => StopIsConfirmed
<1> DEFINE Asked(i, c) ==
      /\ handler[i].kind = "confirm" /\ handler[i].role
      /\ handler[c].kind = "toggle" /\ handler[c].role
      /\ handler[c].user = handler[i].user /\ c \in settled
<1>1. TypeOK /\ PanelInv /\ [Next]_vars =>
        [server' = "stopping" /\ server # "stopping" => Asked(op'.by, handler[op'.by].about)]_vars
  <2> SUFFICES ASSUME TypeOK, PanelInv, Next, server' = "stopping", server # "stopping"
               PROVE  Asked(op'.by, handler[op'.by].about)
    OBVIOUS
  <2>1. PICK i \in Interactions : Stop(i)
    BY DEF Next, Around, ServerMoves, RoleMoves, ToggleMoves, CommandEnds, Expire,
      DeleteIfExpired, PressToggle, Arrives, Click, Toggle, CheckToggle, ReadPresence, Ask, Save,
      Start, TellResult, Begins, Confirmation, Get, DeleteMessage, Respond, Delete,
      RconPresence, Execute, controller
  <2>2. op'.by = i
    BY <2>1 DEF Stop, Begins
  <2> QED
    BY <2>1, <2>2 DEF Stop, At, PanelInv, Mine, Accepted, Confirmed, Requested
<1> QED BY <1>1, PanelInvariance, PTL DEF Spec, StopIsConfirmed
=============================================================================
