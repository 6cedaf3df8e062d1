-------------------------- MODULE ControllerClaims --------------------------
(***************************************************************************)
(* Statements that the documentation and the tests of the repository make  *)
(* about the controller and that its interleavings break. Each is checked  *)
(* by a run of its own, which TLC must find violated.                      *)
(*                                                                         *)
(* History variables: overruled, the calls of Start still at work when the *)
(* startup had already been ended by somebody else; byCli, the lifecycles  *)
(* that `mcbot server stop` ended with its intent on file.                 *)
(***************************************************************************)
EXTENDS Controller

VARIABLES overruled, byCli

claimVars == <<vars, overruled, byCli>>

ClaimInit == Init /\ overruled = {} /\ byCli = {}
ClaimNext ==
  /\ Next
  /\ overruled' = overruled \cup
       {s \in StartOps : start'[s].pc \notin {"idle", "done"} /\ state' # "Starting"}
  /\ byCli' = IF /\ cli.pc = "recorded" /\ cli'.pc = "idle"
                 /\ docker.up /\ ~docker'.up /\ intent = docker.life
              THEN byCli \cup {docker.life} ELSE byCli

ClaimSpec == ClaimInit /\ [][ClaimNext]_claimVars

(* README: Crashed is an abnormal end of the running server. The container *)
(* watcher also declares it when it ticks between TryStartTransition and   *)
(* `docker start`: the container has not run at all.                       *)
CrashedHasRun == state = "Crashed" => docker.life > 0

(* The test of concurrent startup observers: a Start whose startup was     *)
(* ended by another goroutine does not report success. It does when a new  *)
(* startup is under way: only `state = Starting` is looked at.             *)
OverruledNeverSucceeds ==
  \A s \in overruled : start[s].result # "success"

(* The test of `mcbot server stop`: it triggers no crash recovery. A       *)
(* lifecycle that it ended, and whose intent is still on file, is declared *)
(* Crashed all the same by a SyncState, which does not look at the file.   *)
CliStopIsNoCrash ==
  [][state # "Crashed" /\ state' = "Crashed" /\ docker.life \in byCli /\ ~docker.up
       => intent # docker.life]_claimVars

(* Starting is "the server is being started". A Start that finds the       *)
(* container running already answers so and leaves the server Starting,    *)
(* with nobody to take it further.                                         *)
StartingIsOwned == state = "Starting" => StartupOwned
=============================================================================
