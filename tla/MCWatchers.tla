----------------------------- MODULE MCWatchers -----------------------------
(* The instances of Watchers. *)
EXTENDS Watchers, TLC

\* Ready events, runs and sync watchers are each alike.
Symmetry == Permutations(Readies) \cup Permutations(Runs) \cup Permutations(Syncers)
=============================================================================
