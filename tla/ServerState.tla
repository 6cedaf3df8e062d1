---------------------------- MODULE ServerState ----------------------------
(***************************************************************************)
(* The server states of state.Manager, the guards of its two user-facing   *)
(* transitions, and the decision table of Controller.reconcileState.       *)
(* Every operator is a pure function: the modules that model the           *)
(* goroutines of the controller read the state, call these, and write it.  *)
(***************************************************************************)

States == {"Stopped", "Starting", "Running", "Stopping", "Error", "Crashed"}

\* The states in which TryStartTransition succeeds; in the others it returns
\* a TransitionError and changes nothing.
Startable == {"Stopped", "Error", "Crashed"}

\* The states in which TryStopTransition succeeds.
Stoppable == {"Running", "Error", "Crashed"}

\* The answer of reconcileState that leaves everything as it is.
NoAction == "NoAction"

\* Mutants: a server already declared Crashed stays so; the fallback after
\* the ready timeout is missing.
ReconcileCrashedFinal(current, running, startedAtKnown, shutdownIntent) ==
  CASE running /\ current = "Starting" /\ startedAtKnown -> "Running"
    [] ~running /\ current = "Stopping" -> "Stopped"
    [] ~running /\ current \in {"Running", "Starting"} ->
         IF shutdownIntent THEN "Stopped" ELSE "Crashed"
    [] OTHER -> NoAction

ReconcileNoFallback(current, running, startedAtKnown, shutdownIntent) ==
  CASE ~running /\ current = "Stopping" -> "Stopped"
    [] ~running /\ current \in {"Running", "Starting"} ->
         IF shutdownIntent THEN "Stopped" ELSE "Crashed"
    [] ~running /\ current = "Crashed" /\ shutdownIntent -> "Stopped"
    [] OTHER -> NoAction

(***************************************************************************)
(* reconcileState: the state to move to, from the state the caller read    *)
(* (it may have changed since), what it saw of the container, whether it   *)
(* passes the time the container started, and whether it knows that the    *)
(* stop was wanted.                                                        *)
(***************************************************************************)
Reconcile(current, running, startedAtKnown, shutdownIntent) ==
  CASE running /\ current = "Starting" /\ startedAtKnown -> "Running"
    [] ~running /\ current = "Stopping" -> "Stopped"
    [] ~running /\ current \in {"Running", "Starting"} ->
         IF shutdownIntent THEN "Stopped" ELSE "Crashed"
    [] ~running /\ current = "Crashed" /\ shutdownIntent -> "Stopped"
    [] OTHER -> NoAction
=============================================================================
