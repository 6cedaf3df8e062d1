----------------------------- MODULE MCRecovery -----------------------------
(* The instance of Recovery: two lifecycles; one attempt and one failure,  *)
(* or two attempts and no failure where a crash must be recovered.         *)
EXTENDS Recovery
=============================================================================
