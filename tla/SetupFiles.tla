----------------------------- MODULE SetupFiles -----------------------------
(***************************************************************************)
(* The two files of the command line, .env and mc-server.toml: `mcbot      *)
(* setup`, which writes both and takes the first back when the second      *)
(* fails, next to `env` and `config` commands in other processes.          *)
(*                                                                         *)
(* A file is the set of the changes it has in it: what the operator began  *)
(* with, and the processes that wrote to it. A step is one operation on a  *)
(* file; every file is written to a temporary one that is then renamed.    *)
(***************************************************************************)
EXTENDS Naturals, FiniteSets

CONSTANTS
  Setups,     \* runs of mcbot setup
  Commands,   \* runs of mcbot env or mcbot config
  MaxFaults,  \* how many operations fail
  MaxKills    \* how many processes are killed

ASSUME BoundsAssumption == {MaxFaults, MaxKills} \subseteq Nat

\* The changes are different ones, and none is the absence of a file.
ASSUME ChangesAssumption ==
  /\ Setups \cap Commands = {}
  /\ {"original", "token", "broken", "no file"} \cap (Setups \cup Commands) = {}

VARIABLES
  file,     \* what is in .env and in mc-server.toml
  setup,    \* a run of setup
  dir,      \* the files that it keeps beside .env and in its staging directory
  litter,   \* those of them whose removal has failed
  command,  \* a run of init, set or unset
  faults, kills,
  history   \* of the rollback of a setup

vars == <<file, setup, dir, litter, command, faults, kills, history>>

\* "token" stands for the required keys, "broken" for a file that does not parse.
Changes == {"original", "token", "broken"} \cup Setups \cup Commands
NoFile == {"no file"}
Files == (SUBSET Changes) \cup {NoFile}
Placeholder == {}
Names == {"env", "config"}
Parts == {"stage", "temp", "backup"}
Template == {}

SetupType ==
  [pc : {"idle", "confirm", "stage", "answer", "collect", "review", "prepare", "commit",
         "rename", "write", "install", "restore", "compare", "exchangeBack", "remove",
         "drop", "clean", "validate",
         "done", "failed", "refused", "stuck", "invalid", "killed"},
   kind : {"env", "config", "both"}, yes : BOOLEAN]
DirType == [stage : Files, temp : Files, backup : Files, config : Files, existed : BOOLEAN]
CommandType ==
  [pc : {"idle", "check", "read", "write", "rename", "done", "failed", "killed"},
   name : Names, init : BOOLEAN, temp : Files]
HistoryType == [before : Files, rolled : BOOLEAN, calm : BOOLEAN]

TypeOK ==
  /\ file \in [Names -> Files]
  /\ setup \in [Setups -> SetupType]
  /\ dir \in [Setups -> DirType]
  /\ litter \in [Setups -> SUBSET Parts]
  /\ command \in [Commands -> CommandType]
  /\ faults \in 0..MaxFaults /\ kills \in 0..MaxKills
  /\ history \in [Setups -> HistoryType]

Init ==
  /\ file \in [env : {NoFile, {"original"}, {"original", "token"}},
               config : {NoFile, {"original"}, {"broken"}}]
  /\ setup \in [Setups -> [pc : {"idle"}, kind : {"both"}, yes : {FALSE}]]
  /\ dir = [s \in Setups |-> [stage |-> NoFile, temp |-> NoFile, backup |-> NoFile,
                              config |-> NoFile, existed |-> FALSE]]
  /\ litter = [s \in Setups |-> {}]
  /\ command = [c \in Commands |-> [pc |-> "idle", name |-> "env", init |-> FALSE, temp |-> NoFile]]
  /\ faults = 0 /\ kills = 0
  /\ history = [s \in Setups |-> [before |-> NoFile, rolled |-> FALSE, calm |-> TRUE]]

Fault == faults < MaxFaults /\ faults' = faults + 1
Works == faults' = faults
Exists(name) == file[name] # NoFile
At(s, pc) == setup[s].pc = pc
Moves(s, pc) == setup' = [setup EXCEPT ![s].pc = pc]
Goes(s, pc) == Moves(s, pc) /\ UNCHANGED litter

\* setup is done with some of its files, which are those of d, and removes them.
\* One that cannot be removed stays, and nobody is told.
Leaves(s, pc, d, parts) ==
  /\ Moves(s, pc)
  /\ \E left \in SUBSET {part \in parts : d[part] # NoFile} :
       LET Rest(part) == IF part \in parts \ (left \cup litter[s]) THEN NoFile ELSE d[part] IN
       /\ dir' = [dir EXCEPT ![s] = [stage |-> Rest("stage"), temp |-> Rest("temp"),
                                     backup |-> Rest("backup"), config |-> NoFile,
                                     existed |-> d.existed]]
       /\ litter' = [litter EXCEPT ![s] = @ \cup left]

\* The end of a setup: its staging directory goes, and so does a temporary file.
Ends(s, how) == Leaves(s, how, dir[s], {"stage", "temp"})
Outside == <<command, kills>>
-----------------------------------------------------------------------------
(* What setup asks.                                                         *)

Begin(s, kind, yes) ==
  /\ At(s, "idle")
  /\ setup' = [setup EXCEPT ![s] = [pc |-> "confirm", kind |-> kind, yes |-> yes]]
  /\ UNCHANGED <<file, dir, litter, faults, history, Outside>>

\* A file that is there is overwritten if the operator wants that.
ConfirmOverwrite(s) ==
  /\ At(s, "confirm") /\ Works
  /\ LET over == \E n \in Names : setup[s].kind \in {n, "both"} /\ Exists(n) IN
       \/ Goes(s, IF setup[s].kind = "config" THEN "collect" ELSE "stage") /\ dir' = dir
       \/ over /\ ~setup[s].yes /\ Ends(s, "failed")
  /\ UNCHANGED <<file, history, Outside>>

\* createSetupEnvStage: the answers start from the file.
CreateStage(s) ==
  /\ At(s, "stage")
  /\ LET seeded == [dir[s] EXCEPT !.stage = IF Exists("env") THEN file["env"] ELSE {}] IN
       \/ Works /\ Goes(s, "answer") /\ dir' = [dir EXCEPT ![s] = seeded]
       \/ Fault /\ Leaves(s, "failed", seeded, {"stage"})
  /\ UNCHANGED <<file, history, Outside>>

\* Without questions the required keys must be there; with them one asks until
\* they are, or until the input ends.
Answer(s) ==
  /\ At(s, "answer")
  /\ \/ /\ Works /\ (setup[s].yes => "token" \in dir[s].stage)
        /\ dir' = [dir EXCEPT ![s].stage = @ \cup {"token", s}]
        /\ Goes(s, IF setup[s].kind = "both" THEN "collect" ELSE "review")
     \/ Works /\ setup[s].yes /\ "token" \notin dir[s].stage /\ Ends(s, "failed")
     \/ Fault /\ Ends(s, "failed")
  /\ UNCHANGED <<file, history, Outside>>

\* collectSetupConfig starts from the file, or from the defaults if it is not
\* there or does not parse.
Collect(s) ==
  /\ At(s, "collect")
  /\ \/ /\ Works /\ Goes(s, "review")
        /\ dir' = [dir EXCEPT ![s].config =
             {s} \cup (IF Exists("config") /\ "broken" \notin file["config"]
                       THEN file["config"] ELSE {})]
     \/ Fault /\ Ends(s, "failed")
  /\ UNCHANGED <<file, history, Outside>>

Review(s) ==
  /\ At(s, "review") /\ Works
  /\ \/ /\ dir' = dir
        /\ Goes(s, CASE setup[s].kind = "both" -> "prepare"
                     [] setup[s].kind = "env" -> "commit"
                     [] OTHER -> "write")
     \/ ~setup[s].yes /\ Ends(s, "failed")
  /\ UNCHANGED <<file, history, Outside>>

Ask(s) == ConfirmOverwrite(s) \/ CreateStage(s) \/ Answer(s) \/ Collect(s) \/ Review(s)
-----------------------------------------------------------------------------
(* What setup writes.                                                       *)

\* prepareSetupEnvRollback: a hard link to the file, or a placeholder.
PrepareRollback(s) ==
  /\ At(s, "prepare")
  /\ LET kept == [dir[s] EXCEPT !.backup = IF Exists("env") THEN file["env"] ELSE Placeholder,
                                !.existed = Exists("env")]
     IN \/ /\ Works /\ Goes(s, "commit") /\ dir' = [dir EXCEPT ![s] = kept]
           /\ history' = [history EXCEPT ![s].before = file["env"]]
        \/ Fault /\ Leaves(s, "failed", kept, Parts) /\ history' = history
  /\ UNCHANGED <<file, Outside>>

\* Mutant: the backup of a commit that failed is left.
CommitLeaving(s) ==
  /\ At(s, "commit")
  /\ \/ /\ Works /\ Goes(s, "rename")
        /\ dir' = [dir EXCEPT ![s].temp = dir[s].stage]
     \/ Fault /\ Leaves(s, "failed", [dir[s] EXCEPT !.temp = dir[s].stage], {"stage", "temp"})
  /\ UNCHANGED <<file, history, Outside>>

\* The temporary file is written, ...
Commit(s) ==
  /\ At(s, "commit")
  /\ \/ /\ Works /\ Goes(s, "rename")
        /\ dir' = [dir EXCEPT ![s].temp = dir[s].stage]
     \/ Fault /\ Leaves(s, "failed", [dir[s] EXCEPT !.temp = dir[s].stage], Parts)
  /\ UNCHANGED <<file, history, Outside>>

\* A write disturbs the rollbacks that are under way, of others.
Disturbs(p) == [s \in Setups |-> IF s = p THEN history[s] ELSE [history[s] EXCEPT !.calm = FALSE]]

\* ... and takes the place of .env.
RenameEnv(s) ==
  /\ At(s, "rename")
  /\ \/ /\ Works /\ Goes(s, IF setup[s].kind = "both" THEN "write" ELSE "validate")
        /\ file' = [file EXCEPT !["env"] = dir[s].temp]
        /\ dir' = [dir EXCEPT ![s].temp = NoFile]
        /\ history' = Disturbs(s)
     \/ Fault /\ Leaves(s, "failed", dir[s], Parts) /\ UNCHANGED <<file, history>>
  /\ UNCHANGED Outside

\* mcconfig.Write, whose failure takes .env back.
FailsToWrite(s) ==
  /\ Fault
  /\ LET written == [dir[s] EXCEPT !.temp = dir[s].config] IN
       IF setup[s].kind = "both"
       THEN Leaves(s, "restore", written, {"temp"})
       ELSE Leaves(s, "failed", written, {"stage", "temp"})
  /\ file' = file

WriteConfig(s) ==
  /\ At(s, "write")
  /\ \/ /\ Works /\ Goes(s, "install") /\ file' = file
        /\ dir' = [dir EXCEPT ![s].temp = dir[s].config]
     \/ FailsToWrite(s)
  /\ UNCHANGED <<history, Outside>>

RenameConfig(s) ==
  /\ At(s, "install")
  /\ \/ /\ Works /\ Goes(s, IF setup[s].kind = "both" THEN "clean" ELSE "validate")
        /\ file' = [file EXCEPT !["config"] = dir[s].temp]
        /\ dir' = [dir EXCEPT ![s].temp = NoFile]
     \/ FailsToWrite(s)
  /\ UNCHANGED <<history, Outside>>

CleanUp(s) ==
  /\ At(s, "clean") /\ Works
  /\ Leaves(s, "validate", dir[s], {"backup"})
  /\ UNCHANGED <<file, history, Outside>>

\* What is read back may be what another process has written.
Validate(s) ==
  /\ At(s, "validate") /\ Works
  /\ LET env == Exists("env") /\ "token" \in file["env"]
         config == Exists("config") /\ "broken" \notin file["config"]
         valid == /\ setup[s].kind \in {"env", "both"} => env
                  /\ setup[s].kind = "both" => config
     IN Ends(s, IF valid THEN "done" ELSE "invalid")
  /\ UNCHANGED <<file, history, Outside>>

Write(s) ==
  \/ PrepareRollback(s) \/ Commit(s) \/ RenameEnv(s) \/ WriteConfig(s) \/ RenameConfig(s)
  \/ CleanUp(s) \/ Validate(s)
-----------------------------------------------------------------------------
(* setupEnvRollback.restore.                                                *)

\* atomicfile.Exchange: each file takes the other's place.
Swap(s) ==
  /\ file' = [file EXCEPT !["env"] = dir[s].backup]
  /\ dir' = [dir EXCEPT ![s].backup = file["env"]]

Restore(s) ==
  /\ At(s, "restore")
  /\ \/ /\ Works /\ Exists("env") /\ Swap(s) /\ Goes(s, "compare")
        /\ history' = [Disturbs(s) EXCEPT ![s].rolled = TRUE, ![s].calm = TRUE]
     \/ /\ IF Exists("env") THEN Fault ELSE Works
        /\ Ends(s, "stuck") /\ UNCHANGED <<file, history>>
  /\ UNCHANGED Outside

\* Mutant: whatever is there is rolled back.
CompareNever(s) ==
  /\ At(s, "compare") /\ Works
  /\ Goes(s, IF dir[s].existed THEN "drop" ELSE "remove")
  /\ UNCHANGED <<file, dir, history, Outside>>

\* What setup has written may be rolled back, a change of somebody else not.
Compare(s) ==
  /\ At(s, "compare")
  /\ \/ Fault /\ Goes(s, "exchangeBack")
     \/ /\ Works
        /\ Goes(s, IF dir[s].backup # dir[s].stage THEN "exchangeBack"
                   ELSE IF dir[s].existed THEN "drop" ELSE "remove")
  /\ UNCHANGED <<file, dir, history, Outside>>

ExchangeBack(s) ==
  /\ At(s, "exchangeBack")
  /\ \/ /\ Works /\ Exists("env")
        /\ file' = [file EXCEPT !["env"] = dir[s].backup]
        /\ Leaves(s, "refused", [dir[s] EXCEPT !.backup = file["env"]], {"stage", "temp"})
        /\ history' = Disturbs(s)
     \/ /\ IF Exists("env") THEN Fault ELSE Works
        /\ Ends(s, "stuck") /\ UNCHANGED <<file, history>>
  /\ UNCHANGED Outside

\* Mutant: the placeholder stays.
RemovePlaceholderNever(s) ==
  /\ At(s, "remove") /\ Works /\ Goes(s, "drop")
  /\ UNCHANGED <<file, dir, history, Outside>>

\* The placeholder goes - or what has come into its place.
RemovePlaceholder(s) ==
  /\ At(s, "remove")
  /\ \/ /\ Works /\ Exists("env") /\ Goes(s, "drop")
        /\ file' = [file EXCEPT !["env"] = NoFile] /\ dir' = dir
        /\ history' = Disturbs(s)
     \/ /\ IF Exists("env") THEN Fault ELSE Works
        /\ Ends(s, "stuck") /\ UNCHANGED <<file, history>>
  /\ UNCHANGED Outside

Drop(s) ==
  /\ At(s, "drop")
  /\ \/ Works /\ Leaves(s, "failed", [dir[s] EXCEPT !.backup = NoFile], {"stage", "temp"})
     \/ Fault /\ Ends(s, "stuck")
  /\ UNCHANGED <<file, history, Outside>>

Rollback(s) == Restore(s) \/ Compare(s) \/ ExchangeBack(s) \/ RemovePlaceholder(s) \/ Drop(s)

Ended == {"idle", "done", "failed", "refused", "stuck", "invalid", "killed"}
Kill(s) ==
  /\ kills < MaxKills /\ kills' = kills + 1
  /\ setup[s].pc \notin Ended /\ Goes(s, "killed")
  /\ UNCHANGED <<file, dir, command, faults, history>>
-----------------------------------------------------------------------------
(* env and config: init, set and unset.                                     *)

Quiet == <<setup, dir, litter>>
Steps(c, pc) == command' = [command EXCEPT ![c].pc = pc]

Call(c, name, init) ==
  /\ command[c].pc = "idle"
  /\ command' = [command EXCEPT ![c] =
       [pc |-> IF init THEN "check" ELSE "read", name |-> name, init |-> init, temp |-> NoFile]]
  /\ UNCHANGED <<file, Quiet, faults, kills, history>>

\* init looks for the file, unless --force or --yes is given.
CheckAbsent(c) ==
  /\ command[c].pc = "check"
  /\ \/ Steps(c, "write") \/ (Exists(command[c].name) /\ Steps(c, "failed"))
  /\ UNCHANGED <<file, Quiet, faults, kills, history>>

\* set and unset read it: a file that is not there is read as an empty one, one
\* that does not parse is refused.
Read(c) ==
  /\ command[c].pc = "read"
  /\ LET name == command[c].name
         content == IF Exists(name) THEN file[name] ELSE {}
     IN IF "broken" \in content
        THEN Steps(c, "failed")
        ELSE command' = [command EXCEPT ![c].pc = "write", ![c].temp = content]
  /\ UNCHANGED <<file, Quiet, faults, kills, history>>

WriteTemp(c) ==
  /\ command[c].pc = "write"
  /\ \/ /\ Works
        /\ command' = [command EXCEPT ![c].pc = "rename",
                         ![c].temp = {c} \cup (IF command[c].init THEN Template ELSE @)]
     \/ Fault /\ command' = [command EXCEPT ![c].pc = "failed", ![c].temp = NoFile]
  /\ UNCHANGED <<file, Quiet, kills, history>>

\* The file may have changed since it was read.
RenameTemp(c) ==
  /\ command[c].pc = "rename"
  /\ command' = [command EXCEPT ![c].pc = "done", ![c].temp = NoFile]
  /\ file' = [file EXCEPT ![command[c].name] = command[c].temp]
  /\ history' = IF command[c].name = "env" THEN Disturbs(c) ELSE history
  /\ UNCHANGED <<Quiet, faults, kills>>

RenameFails(c) ==
  /\ command[c].pc = "rename" /\ Fault
  /\ command' = [command EXCEPT ![c].pc = "failed", ![c].temp = NoFile]
  /\ UNCHANGED <<file, Quiet, kills, history>>

KillCommand(c) ==
  /\ kills < MaxKills /\ kills' = kills + 1
  /\ command[c].pc \in {"check", "read", "write", "rename"} /\ Steps(c, "killed")
  /\ UNCHANGED <<file, Quiet, faults, history>>

Next ==
  \/ \E s \in Setups :
       \/ \E kind \in {"env", "config", "both"}, yes \in BOOLEAN : Begin(s, kind, yes)
       \/ Ask(s) \/ Write(s) \/ Rollback(s) \/ Kill(s)
  \/ \E c \in Commands :
       \/ \E name \in Names, init \in BOOLEAN : Call(c, name, init)
       \/ CheckAbsent(c) \/ Read(c) \/ WriteTemp(c) \/ RenameTemp(c)
       \/ RenameFails(c) \/ KillCommand(c)

Spec == Init /\ [][Next]_vars
-----------------------------------------------------------------------------
(* A setup that fails without a word about the rollback has changed neither *)
(* file: it stopped before its first write, or .env is what it was before - *)
(* also when it did not exist -, if nobody writes to it while it is rolled  *)
(* back. A rollback that is refused or stuck is reported as that.           *)
AllOrNothing ==
  \A s \in Setups : At(s, "failed") =>
    /\ s \notin file["config"]
    /\ ~history[s].rolled => s \notin file["env"]
    /\ history[s].rolled /\ history[s].calm => file["env"] = history[s].before

(* The rollback keeps the changes of others: a change in .env that setup    *)
(* has not itself taken over is in .env afterwards, or in the backup that   *)
(* is left beside it. Except when the placeholder is removed that came into *)
(* the place of an .env that did not exist: a change made since goes too.   *)
NothingLost ==
  [][\A s \in Setups :
       /\ setup[s].pc \in {"restore", "compare", "exchangeBack", "drop"}
       /\ setup'[s].pc # setup[s].pc
       => (file["env"] \cup dir[s].backup) \ (dir[s].stage \cup NoFile)
            \subseteq file'["env"] \cup dir'[s].backup]_vars

(* A setup that was not killed leaves nothing behind, save the backup of a  *)
(* rollback that was refused or failed, and what it could not remove: no    *)
(* path forgets a file.                                                     *)
LeavesNothing ==
  \A s \in Setups : setup[s].pc \in Ended \ {"killed"} =>
    \A part \in Parts : dir[s][part] # NoFile =>
      \/ part \in litter[s]
      \/ part = "backup" /\ setup[s].pc \in {"refused", "stuck"}
=============================================================================
