------------------------- MODULE MCControllerClaims -------------------------
(* The instances of ControllerClaims: the smallest that show each point.   *)
EXTENDS ControllerClaims, TLC

OnlyReady == {"ready"}

\* Calls of Start are alike, and so are calls of Stop.
Symmetry == Permutations(StartOps) \cup Permutations(StopOps)
=============================================================================
