---------------------------- MODULE WatcherSlot ----------------------------
(***************************************************************************)
(* What the rest of the controller relies on when it replaces its sync     *)
(* watcher: there is one at a time; once a replacement has begun the old   *)
(* one begins nothing any more, although what it has begun it ends; and    *)
(* the replacement is not over before it has gone.                         *)
(*                                                                         *)
(* Controller and Watchers implement this at two grains.                   *)
(***************************************************************************)
VARIABLES
  watcher,   \* "none", "watching", "acting" on what it has seen, or "spent"
  retired,   \* its generation is over
  replacing  \* stopSyncWatcher or startSyncWatcher is at work

vars == <<watcher, retired, replacing>>

Init == watcher = "none" /\ retired = FALSE /\ replacing = FALSE

Begin ==
  /\ watcher = "watching" /\ ~retired
  /\ watcher' = "acting"
  /\ UNCHANGED <<retired, replacing>>

Finish ==
  /\ watcher \in {"watching", "acting"}
  /\ watcher' = "spent"
  /\ UNCHANGED <<retired, replacing>>

Leave ==
  /\ watcher # "none"
  /\ watcher' = "none" /\ retired' = FALSE
  /\ UNCHANGED replacing

Retire ==
  /\ ~replacing
  /\ replacing' = TRUE
  /\ retired' = (watcher # "none")
  /\ UNCHANGED watcher

\* The replacement is over: without a watcher, or with a new one.
Replaced ==
  /\ replacing /\ watcher = "none"
  /\ replacing' = FALSE
  /\ watcher' \in {"none", "watching"}
  /\ UNCHANGED retired

Next == Begin \/ Finish \/ Leave \/ Retire \/ Replaced

Spec == Init /\ [][Next]_vars
=============================================================================
