-------------------------- MODULE MCLogMultiplexer --------------------------
(* The instances of LogMultiplexer: one subscription stands for each, for   *)
(* the run serves them one by one and never waits for any.                  *)
EXTENDS LogMultiplexer
=============================================================================
