--------------------------- MODULE MCStatusUpdates ---------------------------
(* The instance of StatusUpdates: one player, a channel of one event.       *)
EXTENDS StatusUpdates
=============================================================================
