---------------------------- MODULE MCSetupFiles ----------------------------
(* The instance of SetupFiles: a setup beside two other commands. *)
EXTENDS SetupFiles
=============================================================================
