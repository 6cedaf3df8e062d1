--------------------------- MODULE MCControlPanel ---------------------------
(* The instance of ControlPanel: two users and three interactions. *)
EXTENDS ControlPanel
=============================================================================
