-------------------------- MODULE SetupFilesProofs --------------------------
(***************************************************************************)
(* What a setup may leave behind, for any number of setups and commands at *)
(* once, failures and kills: the types, LeavesNothing, NothingLost and     *)
(* AllOrNothing. Each rests on what a setup knows of its own files at      *)
(* every place (Own); the last one also on who can have a change of whom   *)
(* (Spread), and on what the file is while nobody disturbs a rollback.     *)
(***************************************************************************)
EXTENDS SetupFiles, TLAPS

LEMMA Bounds == MaxFaults \in Nat /\ MaxKills \in Nat
  BY BoundsAssumption

LEMMA FaultTypes ==
  ASSUME faults \in 0..MaxFaults PROVE Fault \/ Works => faults' \in 0..MaxFaults
  BY Bounds DEF Fault, Works

LEMMA KillTypes ==
  ASSUME kills \in 0..MaxKills, kills < MaxKills PROVE kills + 1 \in 0..MaxKills
  BY Bounds

\* A file that is there has some of the changes, and a placeholder has none.
LEMMA FileTypes ==
  /\ NoFile \in Files /\ Placeholder \in Files /\ Template \in Files
  /\ \A content \in Files :
       content # NoFile =>
         \A more \in SUBSET Changes : more \cup content \in Files \ {NoFile}
  /\ \A some \in SUBSET Changes : some \in Files /\ some # NoFile
<1>1. "no file" \notin Changes
  BY ChangesAssumption DEF Changes
<1>2. \A some \in SUBSET Changes : some \in Files /\ some # NoFile
  BY <1>1 DEF Files, NoFile
<1>3. NoFile \in Files /\ Placeholder \in Files /\ Template \in Files
  BY DEF Files, Placeholder, Template
<1>4. \A content \in Files : content # NoFile => content \in SUBSET Changes
  BY DEF Files
<1>5. \A content, more \in SUBSET Changes : more \cup content \in SUBSET Changes
  OBVIOUS
<1> QED BY <1>2, <1>3, <1>4, <1>5

\* What a setup knows of its files, and of the rollback, at every place: its
\* record in setup, dir and history, and what of it could not be removed.
Own(u, d, h, l) ==
  /\ d.stage # NoFile => u.pc \notin Ended \ {"killed"} \/ "stage" \in l
  /\ u.pc = "answer" => d.stage # NoFile
  /\ d.temp # NoFile => u.pc \in {"rename", "install", "killed"} \/ "temp" \in l
  /\ u.pc = "rename" => d.temp = d.stage
  /\ u.pc = "install" => d.temp = d.config
  /\ d.backup # NoFile =>
       /\ u.kind = "both"
       /\ \/ u.pc \in {"commit", "rename", "write", "install", "restore", "compare",
                       "exchangeBack", "remove", "drop", "clean", "refused", "stuck", "killed"}
          \/ "backup" \in l /\ u.pc \in {"validate", "done", "invalid", "failed"}
  /\ u.pc \in {"prepare", "restore", "compare", "exchangeBack", "remove", "drop", "clean"} =>
       u.kind = "both"
  /\ u.pc \in {"drop", "remove"} => d.backup = d.stage
  /\ u.pc = "remove" => d.existed = FALSE
  /\ u.pc \in {"compare", "exchangeBack", "remove", "drop"} => h.rolled = TRUE
  /\ h.rolled = TRUE =>
       u.pc \in {"compare", "exchangeBack", "remove", "drop", "failed", "refused", "stuck",
                 "killed"}
  /\ u.kind = "both" /\ u.pc \in {"commit", "rename", "write", "install", "restore"} =>
       d.backup = (IF d.existed = TRUE THEN h.before ELSE Placeholder)
  /\ u.kind = "both" /\ u.pc \in {"commit", "rename", "write", "install", "restore", "compare",
                                  "remove"} =>
       (d.existed = TRUE <=> h.before # NoFile)

Owns == \A s \in Setups : Own(setup[s], dir[s], history[s], litter[s])

\* Commands that set or unset have something to set it in, and only init looks first.
Drafted ==
  \A c \in Commands :
    /\ command[c].pc = "write" /\ ~command[c].init => command[c].temp # NoFile
    /\ command[c].pc = "check" => command[c].init

\* Who can have a change of setup s to .env or to mc-server.toml: nobody, before
\* setup has written the file.
EnvSays(s) ==
  \/ s \in file["env"]
  \/ \E r \in Setups \ {s} : s \in dir[r].stage \cup dir[r].backup
  \/ \E c \in Commands : command[c].name = "env" /\ s \in command[c].temp
ConfigSays(s) ==
  \/ s \in file["config"]
  \/ \E r \in Setups \ {s} : s \in dir[r].config
  \/ \E c \in Commands : command[c].name = "config" /\ s \in command[c].temp

WroteEnv(u, h) ==
  \/ u.pc \in {"restore", "compare", "exchangeBack", "remove", "drop", "clean", "validate",
               "done", "invalid", "refused", "stuck", "killed"}
  \/ u.pc \in {"write", "install"} /\ u.kind = "both"
  \/ u.pc = "failed" /\ h.rolled = TRUE
WroteConfig(u) == u.pc \in {"clean", "validate", "done", "invalid", "killed"}

Spread ==
  \A s \in Setups : /\ EnvSays(s) => WroteEnv(setup[s], history[s])
                    /\ ConfigSays(s) => WroteConfig(setup[s])

\* What .env is, while nobody disturbs a rollback.
Rolls(env, u, d, h) ==
  /\ u.pc \in {"compare", "remove"} =>
       env = (IF d.existed = TRUE THEN h.before ELSE Placeholder)
  /\ u.pc \in {"drop", "failed"} => env = h.before
RolledBack ==
  \A s \in Setups : history[s].rolled = TRUE /\ history[s].calm = TRUE =>
    Rolls(file["env"], setup[s], dir[s], history[s])

TypeInv == TypeOK /\ Owns /\ Drafted

LEMMA GoesTypes ==
  ASSUME setup \in [Setups -> SetupType], NEW s \in Setups,
         NEW pc \in {"confirm", "stage", "answer", "collect", "review", "prepare", "commit",
                     "rename", "write", "install", "restore", "compare", "exchangeBack",
                     "remove", "drop", "clean", "validate",
                     "done", "failed", "refused", "stuck", "invalid", "killed"},
         Moves(s, pc)
  PROVE  /\ setup' \in [Setups -> SetupType]
         /\ setup'[s].pc = pc /\ setup'[s].kind = setup[s].kind
         /\ \A r \in Setups : r # s => setup'[r] = setup[r]
  BY DEF Moves, SetupType

\* What is left of the files of a setup that removes some of them.
Removed(s, stage, temp, backup, existed, parts) ==
  /\ dir'[s].stage \in {stage, NoFile} /\ ("stage" \notin parts => dir'[s].stage = stage)
  /\ dir'[s].temp \in {temp, NoFile} /\ ("temp" \notin parts => dir'[s].temp = temp)
  /\ dir'[s].backup \in {backup, NoFile} /\ ("backup" \notin parts => dir'[s].backup = backup)
  /\ dir'[s].config = NoFile /\ dir'[s].existed = existed
  /\ "stage" \in parts => dir'[s].stage = NoFile \/ "stage" \in litter'[s]
  /\ "temp" \in parts => dir'[s].temp = NoFile \/ "temp" \in litter'[s]
  /\ "backup" \in parts => dir'[s].backup = NoFile \/ "backup" \in litter'[s]
  /\ litter[s] \subseteq litter'[s]
  /\ \A r \in Setups : r # s => dir'[r] = dir[r] /\ litter'[r] = litter[r]

LEMMA LitterTypes ==
  ASSUME litter \in [Setups -> SUBSET Parts], NEW s \in Setups, NEW pc, NEW d,
         NEW parts \in SUBSET Parts, Leaves(s, pc, d, parts)
  PROVE  litter' \in [Setups -> SUBSET Parts]
<1>1. PICK left \in SUBSET Parts : litter' = [litter EXCEPT ![s] = litter[s] \cup left]
  BY DEF Leaves
<1> QED BY <1>1

LEMMA LeavesTypes ==
  ASSUME dir \in [Setups -> DirType], litter \in [Setups -> SUBSET Parts],
         NEW s \in Setups, NEW pc, NEW d \in DirType, NEW parts \in SUBSET Parts,
         Leaves(s, pc, d, parts)
  PROVE  /\ dir' \in [Setups -> DirType]
         /\ Removed(s, d.stage, d.temp, d.backup, d.existed, parts)
<1> DEFINE Rest(left, part) ==
      IF part \in parts \ (left \cup litter[s]) THEN NoFile ELSE d[part]
           New(left) == [stage |-> Rest(left, "stage"), temp |-> Rest(left, "temp"),
                         backup |-> Rest(left, "backup"), config |-> NoFile,
                         existed |-> d.existed]
<1>1. PICK left \in SUBSET parts :
        /\ dir' = [dir EXCEPT ![s] = New(left)]
        /\ litter' = [litter EXCEPT ![s] = litter[s] \cup left]
  BY DEF Leaves
<1>2. New(left) \in DirType
  <2>1. NoFile \in Files
    BY FileTypes
  <2>2. /\ d.stage \in Files /\ d.temp \in Files /\ d.backup \in Files
        /\ d.existed \in BOOLEAN
    BY DEF DirType
  <2>3. Rest(left, "stage") \in Files /\ Rest(left, "temp") \in Files
        /\ Rest(left, "backup") \in Files
    BY <2>1, <2>2
  <2> HIDE DEF Rest
  <2> QED BY <2>1, <2>2, <2>3 DEF DirType
<1>3. /\ dir'[s] = New(left) /\ litter'[s] = litter[s] \cup left
      /\ \A r \in Setups : r # s => dir'[r] = dir[r] /\ litter'[r] = litter[r]
  <2> HIDE DEF New
  <2> QED BY <1>1, <1>2
<1>4. dir' \in [Setups -> DirType]
  <2> HIDE DEF New
  <2> QED BY <1>1, <1>2
<1> QED BY <1>3, <1>4 DEF Removed

LEMMA EndsTypes ==
  ASSUME dir \in [Setups -> DirType], litter \in [Setups -> SUBSET Parts],
         NEW s \in Setups, NEW how, Ends(s, how)
  PROVE  /\ dir' \in [Setups -> DirType]
         /\ Removed(s, dir[s].stage, dir[s].temp, dir[s].backup, dir[s].existed,
                    {"stage", "temp"})
<1>1. dir[s] \in DirType /\ {"stage", "temp"} \in SUBSET Parts
  BY DEF Parts
<1> QED BY <1>1, LeavesTypes DEF Ends

\* A file of a setup that is about to be removed, or to be kept.
LEMMA DraftTypes ==
  ASSUME dir \in [Setups -> DirType], NEW s \in Setups, NEW content \in Files
  PROVE  /\ [dir[s] EXCEPT !.stage = content] \in DirType
         /\ [dir[s] EXCEPT !.temp = content] \in DirType
         /\ [dir[s] EXCEPT !.backup = content] \in DirType
         /\ \A b \in BOOLEAN :
              [dir[s] EXCEPT !.backup = content, !.existed = b] \in DirType
  BY DEF DirType

LEMMA HistoryTypes ==
  ASSUME history \in [Setups -> HistoryType], NEW p
  PROVE  /\ Disturbs(p) \in [Setups -> HistoryType]
         /\ \A s \in Setups : /\ Disturbs(p)[s].before = history[s].before
                              /\ Disturbs(p)[s].rolled = history[s].rolled
                              /\ Disturbs(p)[s].calm = TRUE => history[s].calm = TRUE
                              /\ s # p => Disturbs(p)[s].calm = FALSE
                              /\ s = p => Disturbs(p)[s] = history[s]
  BY DEF Disturbs, HistoryType

\* The two files.
LEMMA FileRead ==
  ASSUME file \in [Names -> Files]
  PROVE  /\ "env" \in Names /\ "config" \in Names
         /\ file["env"] \in Files /\ file["config"] \in Files
         /\ \A name \in Names : file[name] \in Files
  BY DEF Names

LEMMA FileWritten ==
  ASSUME file \in [Names -> Files], NEW content \in Files
  PROVE  /\ [file EXCEPT !["env"] = content] \in [Names -> Files]
         /\ [file EXCEPT !["config"] = content] \in [Names -> Files]
         /\ \A name \in Names : [file EXCEPT ![name] = content] \in [Names -> Files]
  BY DEF Names

LEMMA SingleTypes ==
  ASSUME dir \in [Setups -> DirType], NEW s \in Setups
  PROVE  /\ dir[s].stage \in Files /\ dir[s].temp \in Files /\ dir[s].backup \in Files
         /\ dir[s].config \in Files
         /\ \A content \in Files :
              /\ [dir EXCEPT ![s].stage = content] \in [Setups -> DirType]
              /\ [dir EXCEPT ![s].temp = content] \in [Setups -> DirType]
              /\ [dir EXCEPT ![s].backup = content] \in [Setups -> DirType]
              /\ [dir EXCEPT ![s].config = content] \in [Setups -> DirType]
  BY DEF DirType

LEMMA AskTypes ==
  ASSUME TypeInv, NEW s \in Setups, Ask(s) PROVE TypeOK'
<1> USE DEF TypeInv, TypeOK
<1>1. CASE ConfirmOverwrite(s)
  <2>1. setup' \in [Setups -> SetupType]
    BY <1>1, GoesTypes DEF ConfirmOverwrite, Goes, Ends, Leaves
  <2>2. dir' \in [Setups -> DirType]
    BY <1>1, EndsTypes DEF ConfirmOverwrite
  <2>3. file' \in [Names -> Files]
    BY <1>1, FileTypes, FileRead, FileWritten, SingleTypes DEF ConfirmOverwrite
  <2>4. history' \in [Setups -> HistoryType]
    BY <1>1 DEF ConfirmOverwrite
  <2>5. faults' \in 0..MaxFaults
    BY <1>1, FaultTypes DEF ConfirmOverwrite
  <2>6. litter' \in [Setups -> SUBSET Parts]
    BY <1>1, LitterTypes DEF ConfirmOverwrite, Goes, Ends, Parts
  <2> QED BY <1>1, <2>1, <2>2, <2>3, <2>4, <2>5, <2>6 DEF ConfirmOverwrite, Outside
<1>2. CASE CreateStage(s)
  <2>1. setup' \in [Setups -> SetupType]
    BY <1>2, GoesTypes DEF CreateStage, Goes, Ends, Leaves
  <2>2. dir' \in [Setups -> DirType]
    <3> DEFINE content == IF Exists("env") THEN file["env"] ELSE {}
    <3>1. content \in Files
      BY FileTypes, FileRead
    <3>2. [dir[s] EXCEPT !.stage = content] \in DirType /\ {"stage"} \in SUBSET Parts
      <4> HIDE DEF content
      <4> QED BY <3>1, DraftTypes DEF Parts
    <3>3. \/ dir' = [dir EXCEPT ![s] = [dir[s] EXCEPT !.stage = content]]
          \/ Leaves(s, "failed", [dir[s] EXCEPT !.stage = content], {"stage"})
      BY <1>2 DEF CreateStage
    <3> HIDE DEF content
    <3> QED BY <3>2, <3>3, LeavesTypes
  <2>3. file' \in [Names -> Files]
    BY <1>2, FileTypes, FileRead, FileWritten, SingleTypes DEF CreateStage
  <2>4. history' \in [Setups -> HistoryType]
    BY <1>2 DEF CreateStage
  <2>5. faults' \in 0..MaxFaults
    BY <1>2, FaultTypes DEF CreateStage
  <2>6. litter' \in [Setups -> SUBSET Parts]
    BY <1>2, LitterTypes DEF CreateStage, Goes, Ends, Parts
  <2> QED BY <1>2, <2>1, <2>2, <2>3, <2>4, <2>5, <2>6 DEF CreateStage, Outside
<1>3. CASE Answer(s)
  <2>1. setup' \in [Setups -> SetupType]
    BY <1>3, GoesTypes DEF Answer, Goes, Ends, Leaves
  <2>2. dir' \in [Setups -> DirType]
    <3>1. CASE dir' = [dir EXCEPT ![s].stage = @ \cup {"token", s}]
      <4>1. dir[s].stage \in Files /\ dir[s].stage # NoFile
        BY <1>3, SingleTypes DEF Answer, At, Owns, Own
      <4>2. {"token", s} \in SUBSET Changes
        BY DEF Changes
      <4>3. dir[s].stage \cup {"token", s} \in Files
        <5>1. dir[s].stage \cup {"token", s} = {"token", s} \cup dir[s].stage
          OBVIOUS
        <5> QED BY <4>1, <4>2, <5>1, FileTypes
      <4> QED BY <3>1, <4>3, SingleTypes
    <3>2. CASE Ends(s, "failed")
      BY <3>2, EndsTypes
    <3> QED BY <1>3, <3>1, <3>2 DEF Answer
  <2>3. file' \in [Names -> Files]
    BY <1>3, FileTypes, FileRead, FileWritten, SingleTypes DEF Answer
  <2>4. history' \in [Setups -> HistoryType]
    BY <1>3 DEF Answer
  <2>5. faults' \in 0..MaxFaults
    BY <1>3, FaultTypes DEF Answer
  <2>6. litter' \in [Setups -> SUBSET Parts]
    BY <1>3, LitterTypes DEF Answer, Goes, Ends, Parts
  <2> QED BY <1>3, <2>1, <2>2, <2>3, <2>4, <2>5, <2>6 DEF Answer, Outside
<1>4. CASE Collect(s)
  <2>1. setup' \in [Setups -> SetupType]
    BY <1>4, GoesTypes DEF Collect, Goes, Ends, Leaves
  <2>2. dir' \in [Setups -> DirType]
    <3>1. CASE dir' = [dir EXCEPT ![s].config = {s} \cup (IF Exists("config") /\ "broken" \notin file["config"]
                                        THEN file["config"] ELSE {})]
      <4>1. ({s} \cup (IF Exists("config") /\ "broken" \notin file["config"] THEN file["config"] ELSE {})) \in Files
        BY FileTypes, FileRead DEF Changes, Exists
      <4> QED BY <3>1, <4>1, SingleTypes
    <3>2. CASE Ends(s, "failed")
      BY <3>2, EndsTypes
    <3> QED BY <1>4, <3>1, <3>2 DEF Collect
  <2>3. file' \in [Names -> Files]
    BY <1>4, FileTypes, FileRead, FileWritten, SingleTypes DEF Collect
  <2>4. history' \in [Setups -> HistoryType]
    BY <1>4 DEF Collect
  <2>5. faults' \in 0..MaxFaults
    BY <1>4, FaultTypes DEF Collect
  <2>6. litter' \in [Setups -> SUBSET Parts]
    BY <1>4, LitterTypes DEF Collect, Goes, Ends, Parts
  <2> QED BY <1>4, <2>1, <2>2, <2>3, <2>4, <2>5, <2>6 DEF Collect, Outside
<1>5. CASE Review(s)
  <2>1. setup' \in [Setups -> SetupType]
    BY <1>5, GoesTypes DEF Review, Goes, Ends, Leaves
  <2>2. dir' \in [Setups -> DirType]
    BY <1>5, EndsTypes DEF Review
  <2>3. file' \in [Names -> Files]
    BY <1>5, FileTypes, FileRead, FileWritten, SingleTypes DEF Review
  <2>4. history' \in [Setups -> HistoryType]
    BY <1>5 DEF Review
  <2>5. faults' \in 0..MaxFaults
    BY <1>5, FaultTypes DEF Review
  <2>6. litter' \in [Setups -> SUBSET Parts]
    BY <1>5, LitterTypes DEF Review, Goes, Ends, Parts
  <2> QED BY <1>5, <2>1, <2>2, <2>3, <2>4, <2>5, <2>6 DEF Review, Outside
<1> QED BY <1>1, <1>2, <1>3, <1>4, <1>5 DEF Ask

LEMMA WriteTypes ==
  ASSUME TypeInv, NEW s \in Setups, Write(s) PROVE TypeOK'
<1> USE DEF TypeInv, TypeOK
<1>1. CASE PrepareRollback(s)
  <2>1. setup' \in [Setups -> SetupType]
    BY <1>1, GoesTypes DEF PrepareRollback, Goes, Ends, Leaves
  <2>2. dir' \in [Setups -> DirType]
    <3> DEFINE content == IF Exists("env") THEN file["env"] ELSE Placeholder
               kept == [dir[s] EXCEPT !.backup = content, !.existed = Exists("env")]
    <3>1. content \in Files /\ Exists("env") \in BOOLEAN
      BY FileTypes, FileRead DEF Exists
    <3>2. kept \in DirType /\ Parts \in SUBSET Parts
      <4> HIDE DEF content
      <4> QED BY <3>1, DraftTypes
    <3>3. \/ dir' = [dir EXCEPT ![s] = kept]
          \/ Leaves(s, "failed", kept, Parts)
      BY <1>1 DEF PrepareRollback
    <3> HIDE DEF kept
    <3> QED BY <3>2, <3>3, LeavesTypes
  <2>3. file' \in [Names -> Files]
    BY <1>1, FileTypes, FileRead, FileWritten, SingleTypes DEF PrepareRollback
  <2>4. history' \in [Setups -> HistoryType]
    <3>1. file["env"] \in Files
      BY FileRead
    <3> QED BY <1>1, <3>1 DEF PrepareRollback, HistoryType
  <2>5. faults' \in 0..MaxFaults
    BY <1>1, FaultTypes DEF PrepareRollback
  <2>6. litter' \in [Setups -> SUBSET Parts]
    BY <1>1, LitterTypes DEF PrepareRollback, Goes, Ends, Parts
  <2> QED BY <1>1, <2>1, <2>2, <2>3, <2>4, <2>5, <2>6 DEF PrepareRollback, Outside
<1>2. CASE Commit(s)
  <2>1. setup' \in [Setups -> SetupType]
    BY <1>2, GoesTypes DEF Commit, Goes, Ends, Leaves
  <2>2. dir' \in [Setups -> DirType]
    <3>1. CASE dir' = [dir EXCEPT ![s].temp = dir[s].stage]
      <4>1. (dir[s].stage) \in Files
        BY SingleTypes
      <4> QED BY <3>1, <4>1, SingleTypes
    <3>2. CASE Leaves(s, "failed", [dir[s] EXCEPT !.temp = dir[s].stage], Parts)
      BY <3>2, LeavesTypes, DraftTypes, SingleTypes
    <3> QED BY <1>2, <3>1, <3>2 DEF Commit
  <2>3. file' \in [Names -> Files]
    BY <1>2, FileTypes, FileRead, FileWritten, SingleTypes DEF Commit
  <2>4. history' \in [Setups -> HistoryType]
    BY <1>2 DEF Commit
  <2>5. faults' \in 0..MaxFaults
    BY <1>2, FaultTypes DEF Commit
  <2>6. litter' \in [Setups -> SUBSET Parts]
    BY <1>2, LitterTypes DEF Commit, Goes, Ends, Parts
  <2> QED BY <1>2, <2>1, <2>2, <2>3, <2>4, <2>5, <2>6 DEF Commit, Outside
<1>3. CASE RenameEnv(s)
  <2>1. setup' \in [Setups -> SetupType]
    BY <1>3, GoesTypes DEF RenameEnv, Goes, Ends, Leaves
  <2>2. dir' \in [Setups -> DirType]
    <3>1. CASE dir' = [dir EXCEPT ![s].temp = NoFile]
      <4>1. (NoFile) \in Files
        BY FileTypes
      <4> QED BY <3>1, <4>1, SingleTypes
    <3>2. CASE Leaves(s, "failed", dir[s], Parts)
      BY <3>2, LeavesTypes
    <3> QED BY <1>3, <3>1, <3>2 DEF RenameEnv
  <2>3. file' \in [Names -> Files]
    BY <1>3, FileTypes, FileRead, FileWritten, SingleTypes DEF RenameEnv
  <2>4. history' \in [Setups -> HistoryType]
    <3>1. Disturbs(s) \in [Setups -> HistoryType]
      BY HistoryTypes
    <3> QED BY <1>3, <3>1 DEF RenameEnv
  <2>5. faults' \in 0..MaxFaults
    BY <1>3, FaultTypes DEF RenameEnv
  <2>6. litter' \in [Setups -> SUBSET Parts]
    BY <1>3, LitterTypes DEF RenameEnv, Goes, Ends, Parts
  <2> QED BY <1>3, <2>1, <2>2, <2>3, <2>4, <2>5, <2>6 DEF RenameEnv, Outside
<1>4. CASE WriteConfig(s)
  <2>1. setup' \in [Setups -> SetupType]
    BY <1>4, GoesTypes DEF WriteConfig, Goes, Ends, Leaves, FailsToWrite
  <2>2. dir' \in [Setups -> DirType]
    <3>1. CASE dir' = [dir EXCEPT ![s].temp = dir[s].config]
      <4>1. (dir[s].config) \in Files
        BY SingleTypes
      <4> QED BY <3>1, <4>1, SingleTypes
    <3>2. CASE FailsToWrite(s)
      <4> DEFINE written == [dir[s] EXCEPT !.temp = dir[s].config]
      <4>1. written \in DirType /\ {"temp"} \in SUBSET Parts
            /\ {"stage", "temp"} \in SUBSET Parts
        BY DraftTypes, SingleTypes DEF Parts
      <4>2. \/ Leaves(s, "restore", written, {"temp"})
            \/ Leaves(s, "failed", written, {"stage", "temp"})
        BY <3>2 DEF FailsToWrite
      <4> HIDE DEF written
      <4> QED BY <4>1, <4>2, LeavesTypes
    <3> QED BY <1>4, <3>1, <3>2 DEF WriteConfig
  <2>3. file' \in [Names -> Files]
    BY <1>4, FileTypes, FileRead, FileWritten, SingleTypes DEF WriteConfig, FailsToWrite
  <2>4. history' \in [Setups -> HistoryType]
    BY <1>4 DEF WriteConfig
  <2>5. faults' \in 0..MaxFaults
    BY <1>4, FaultTypes DEF WriteConfig, FailsToWrite
  <2>6. litter' \in [Setups -> SUBSET Parts]
    BY <1>4, LitterTypes DEF WriteConfig, Goes, Ends, Parts, FailsToWrite
  <2> QED BY <1>4, <2>1, <2>2, <2>3, <2>4, <2>5, <2>6 DEF WriteConfig, Outside
<1>5. CASE RenameConfig(s)
  <2>1. setup' \in [Setups -> SetupType]
    BY <1>5, GoesTypes DEF RenameConfig, Goes, Ends, Leaves, FailsToWrite
  <2>2. dir' \in [Setups -> DirType]
    <3>1. CASE dir' = [dir EXCEPT ![s].temp = NoFile]
      <4>1. (NoFile) \in Files
        BY FileTypes
      <4> QED BY <3>1, <4>1, SingleTypes
    <3>2. CASE FailsToWrite(s)
      <4> DEFINE written == [dir[s] EXCEPT !.temp = dir[s].config]
      <4>1. written \in DirType /\ {"temp"} \in SUBSET Parts
            /\ {"stage", "temp"} \in SUBSET Parts
        BY DraftTypes, SingleTypes DEF Parts
      <4>2. \/ Leaves(s, "restore", written, {"temp"})
            \/ Leaves(s, "failed", written, {"stage", "temp"})
        BY <3>2 DEF FailsToWrite
      <4> HIDE DEF written
      <4> QED BY <4>1, <4>2, LeavesTypes
    <3> QED BY <1>5, <3>1, <3>2 DEF RenameConfig
  <2>3. file' \in [Names -> Files]
    BY <1>5, FileTypes, FileRead, FileWritten, SingleTypes DEF RenameConfig, FailsToWrite
  <2>4. history' \in [Setups -> HistoryType]
    BY <1>5 DEF RenameConfig
  <2>5. faults' \in 0..MaxFaults
    BY <1>5, FaultTypes DEF RenameConfig, FailsToWrite
  <2>6. litter' \in [Setups -> SUBSET Parts]
    BY <1>5, LitterTypes DEF RenameConfig, Goes, Ends, Parts, FailsToWrite
  <2> QED BY <1>5, <2>1, <2>2, <2>3, <2>4, <2>5, <2>6 DEF RenameConfig, Outside
<1>6. CASE CleanUp(s)
  <2>1. setup' \in [Setups -> SetupType]
    BY <1>6, GoesTypes DEF CleanUp, Goes, Ends, Leaves
  <2>2. dir' \in [Setups -> DirType]
    BY <1>6, LeavesTypes DEF CleanUp, Parts
  <2>3. file' \in [Names -> Files]
    BY <1>6, FileTypes, FileRead, FileWritten, SingleTypes DEF CleanUp
  <2>4. history' \in [Setups -> HistoryType]
    BY <1>6 DEF CleanUp
  <2>5. faults' \in 0..MaxFaults
    BY <1>6, FaultTypes DEF CleanUp
  <2>6. litter' \in [Setups -> SUBSET Parts]
    BY <1>6, LitterTypes DEF CleanUp, Goes, Ends, Parts
  <2> QED BY <1>6, <2>1, <2>2, <2>3, <2>4, <2>5, <2>6 DEF CleanUp, Outside
<1>7. CASE Validate(s)
  <2>1. setup' \in [Setups -> SetupType]
    BY <1>7, GoesTypes DEF Validate, Goes, Ends, Leaves
  <2>2. dir' \in [Setups -> DirType]
    BY <1>7, EndsTypes, FileRead DEF Validate
  <2>3. file' \in [Names -> Files]
    BY <1>7, FileTypes, FileRead, FileWritten, SingleTypes DEF Validate
  <2>4. history' \in [Setups -> HistoryType]
    BY <1>7 DEF Validate
  <2>5. faults' \in 0..MaxFaults
    BY <1>7, FaultTypes DEF Validate
  <2>6. litter' \in [Setups -> SUBSET Parts]
    BY <1>7, LitterTypes DEF Validate, Goes, Ends, Parts
  <2> QED BY <1>7, <2>1, <2>2, <2>3, <2>4, <2>5, <2>6 DEF Validate, Outside
<1> QED BY <1>1, <1>2, <1>3, <1>4, <1>5, <1>6, <1>7 DEF Write

LEMMA RollbackTypes ==
  ASSUME TypeInv, NEW s \in Setups, Rollback(s) PROVE TypeOK'
<1> USE DEF TypeInv, TypeOK
<1>1. CASE Restore(s)
  <2>1. setup' \in [Setups -> SetupType]
    BY <1>1, GoesTypes DEF Restore, Goes, Ends, Leaves
  <2>2. dir' \in [Setups -> DirType]
    <3>1. CASE dir' = [dir EXCEPT ![s].backup = file["env"]]
      <4>1. (file["env"]) \in Files
        BY FileRead
      <4> QED BY <3>1, <4>1, SingleTypes
    <3>2. CASE Ends(s, "stuck")
      BY <3>2, EndsTypes
    <3> QED BY <1>1, <3>1, <3>2 DEF Restore, Swap
  <2>3. file' \in [Names -> Files]
    BY <1>1, FileTypes, FileRead, FileWritten, SingleTypes DEF Restore, Swap
  <2>4. history' \in [Setups -> HistoryType]
    <3>1. Disturbs(s) \in [Setups -> HistoryType]
      BY HistoryTypes
    <3>2. [Disturbs(s) EXCEPT ![s].rolled = TRUE, ![s].calm = TRUE] \in [Setups -> HistoryType]
      BY <3>1 DEF HistoryType
    <3> QED BY <1>1, <3>2 DEF Restore
  <2>5. faults' \in 0..MaxFaults
    BY <1>1, FaultTypes DEF Restore
  <2>6. litter' \in [Setups -> SUBSET Parts]
    BY <1>1, LitterTypes DEF Restore, Goes, Ends, Parts
  <2> QED BY <1>1, <2>1, <2>2, <2>3, <2>4, <2>5, <2>6 DEF Restore, Outside
<1>2. CASE Compare(s)
  <2>1. setup' \in [Setups -> SetupType]
    BY <1>2, GoesTypes DEF Compare, Goes, Ends, Leaves
  <2>2. dir' \in [Setups -> DirType]
    BY <1>2 DEF Compare
  <2>3. file' \in [Names -> Files]
    BY <1>2, FileTypes, FileRead, FileWritten, SingleTypes DEF Compare
  <2>4. history' \in [Setups -> HistoryType]
    BY <1>2 DEF Compare
  <2>5. faults' \in 0..MaxFaults
    BY <1>2, FaultTypes DEF Compare
  <2>6. litter' \in [Setups -> SUBSET Parts]
    BY <1>2, LitterTypes DEF Compare, Goes, Ends, Parts
  <2> QED BY <1>2, <2>1, <2>2, <2>3, <2>4, <2>5, <2>6 DEF Compare, Outside
<1>3. CASE ExchangeBack(s)
  <2>1. setup' \in [Setups -> SetupType]
    BY <1>3, GoesTypes DEF ExchangeBack, Goes, Ends, Leaves
  <2>2. dir' \in [Setups -> DirType]
    <3>1. CASE Leaves(s, "refused", [dir[s] EXCEPT !.backup = file["env"]], {"stage", "temp"})
      BY <3>1, LeavesTypes, DraftTypes, FileRead DEF Parts
    <3>2. CASE Ends(s, "stuck")
      BY <3>2, EndsTypes
    <3> QED BY <1>3, <3>1, <3>2 DEF ExchangeBack
  <2>3. file' \in [Names -> Files]
    BY <1>3, FileTypes, FileRead, FileWritten, SingleTypes DEF ExchangeBack
  <2>4. history' \in [Setups -> HistoryType]
    <3>1. Disturbs(s) \in [Setups -> HistoryType]
      BY HistoryTypes
    <3> QED BY <1>3, <3>1 DEF ExchangeBack
  <2>5. faults' \in 0..MaxFaults
    BY <1>3, FaultTypes DEF ExchangeBack
  <2>6. litter' \in [Setups -> SUBSET Parts]
    BY <1>3, LitterTypes DEF ExchangeBack, Goes, Ends, Parts
  <2> QED BY <1>3, <2>1, <2>2, <2>3, <2>4, <2>5, <2>6 DEF ExchangeBack, Outside
<1>4. CASE RemovePlaceholder(s)
  <2>1. setup' \in [Setups -> SetupType]
    BY <1>4, GoesTypes DEF RemovePlaceholder, Goes, Ends, Leaves
  <2>2. dir' \in [Setups -> DirType]
    <3>1. CASE dir' = dir
      BY <3>1
    <3>2. CASE Ends(s, "stuck")
      BY <3>2, EndsTypes
    <3> QED BY <1>4, <3>1, <3>2 DEF RemovePlaceholder
  <2>3. file' \in [Names -> Files]
    BY <1>4, FileTypes, FileRead, FileWritten, SingleTypes DEF RemovePlaceholder
  <2>4. history' \in [Setups -> HistoryType]
    <3>1. Disturbs(s) \in [Setups -> HistoryType]
      BY HistoryTypes
    <3> QED BY <1>4, <3>1 DEF RemovePlaceholder
  <2>5. faults' \in 0..MaxFaults
    BY <1>4, FaultTypes DEF RemovePlaceholder
  <2>6. litter' \in [Setups -> SUBSET Parts]
    BY <1>4, LitterTypes DEF RemovePlaceholder, Goes, Ends, Parts
  <2> QED BY <1>4, <2>1, <2>2, <2>3, <2>4, <2>5, <2>6 DEF RemovePlaceholder, Outside
<1>5. CASE Drop(s)
  <2>1. setup' \in [Setups -> SetupType]
    BY <1>5, GoesTypes DEF Drop, Goes, Ends, Leaves
  <2>2. dir' \in [Setups -> DirType]
    <3>1. CASE Leaves(s, "failed", [dir[s] EXCEPT !.backup = NoFile], {"stage", "temp"})
      BY <3>1, LeavesTypes, DraftTypes, FileTypes DEF Parts
    <3>2. CASE Ends(s, "stuck")
      BY <3>2, EndsTypes
    <3> QED BY <1>5, <3>1, <3>2 DEF Drop
  <2>3. file' \in [Names -> Files]
    BY <1>5, FileTypes, FileRead, FileWritten, SingleTypes DEF Drop
  <2>4. history' \in [Setups -> HistoryType]
    BY <1>5 DEF Drop
  <2>5. faults' \in 0..MaxFaults
    BY <1>5, FaultTypes DEF Drop
  <2>6. litter' \in [Setups -> SUBSET Parts]
    BY <1>5, LitterTypes DEF Drop, Goes, Ends, Parts
  <2> QED BY <1>5, <2>1, <2>2, <2>3, <2>4, <2>5, <2>6 DEF Drop, Outside
<1> QED BY <1>1, <1>2, <1>3, <1>4, <1>5 DEF Rollback

\* The steps of the commands, and those that begin and kill a setup.
Serve(c) ==
  \/ \E name \in Names, init \in BOOLEAN : Call(c, name, init)
  \/ CheckAbsent(c) \/ Read(c) \/ WriteTemp(c) \/ RenameTemp(c)
  \/ RenameFails(c) \/ KillCommand(c)

Start(s) == \E kind \in {"env", "config", "both"}, yes \in BOOLEAN : Begin(s, kind, yes)

LEMMA NextSteps ==
  ASSUME Next
  PROVE  \/ \E s \in Setups : Start(s) \/ Ask(s) \/ Write(s) \/ Rollback(s) \/ Kill(s)
         \/ \E c \in Commands : Serve(c)
  BY DEF Next, Serve, Start

LEMMA BeginTypes ==
  ASSUME TypeInv, NEW s \in Setups, Start(s) \/ Kill(s) PROVE TypeOK'
<1> USE DEF TypeInv, TypeOK
<1>1. CASE Start(s)
  <2>1. PICK kind \in {"env", "config", "both"}, yes \in BOOLEAN : Begin(s, kind, yes)
    BY <1>1 DEF Start
  <2>2. [pc |-> "confirm", kind |-> kind, yes |-> yes] \in SetupType
    BY DEF SetupType
  <2> QED BY <2>1, <2>2 DEF Begin, Outside
<1>2. CASE Kill(s)
  <2>1. setup' \in [Setups -> SetupType]
    BY <1>2, GoesTypes DEF Kill, Goes
  <2>2. kills' \in 0..MaxKills
    BY <1>2, KillTypes DEF Kill
  <2> QED BY <1>2, <2>1, <2>2 DEF Kill, Goes
<1> QED BY <1>1, <1>2

LEMMA StepsTypes ==
  ASSUME command \in [Commands -> CommandType], NEW c \in Commands,
         NEW pc \in {"check", "read", "write", "rename", "done", "failed", "killed"},
         NEW content \in Files,
         \/ Steps(c, pc)
         \/ command' = [command EXCEPT ![c].pc = pc, ![c].temp = content]
  PROVE  command' \in [Commands -> CommandType]
  BY DEF CommandType, Steps

LEMMA CommandRead ==
  ASSUME command \in [Commands -> CommandType], NEW c \in Commands
  PROVE  command[c].name \in Names /\ command[c].temp \in Files
  BY DEF CommandType

LEMMA ServeTypes ==
  ASSUME TypeInv, NEW c \in Commands, Serve(c) PROVE TypeOK'
<1> USE DEF TypeInv, TypeOK
<1>1. ASSUME NEW name \in Names, NEW init \in BOOLEAN, Call(c, name, init) PROVE TypeOK'
  <2>1. [pc |-> IF init THEN "check" ELSE "read", name |-> name, init |-> init, temp |-> NoFile]
          \in CommandType
    BY FileTypes DEF CommandType
  <2> QED BY <1>1, <2>1 DEF Call, Quiet
<1>2. CASE CheckAbsent(c)
  <2>1. CASE Steps(c, "write")
    <3>1. command' \in [Commands -> CommandType]
      BY <2>1, FileTypes, StepsTypes
    <3> QED BY <1>2, <3>1 DEF CheckAbsent, Quiet
  <2>2. CASE Steps(c, "failed")
    <3>1. command' \in [Commands -> CommandType]
      BY <2>2, FileTypes, StepsTypes
    <3> QED BY <1>2, <3>1 DEF CheckAbsent, Quiet
  <2> QED BY <1>2, <2>1, <2>2 DEF CheckAbsent
<1>3. CASE Read(c)
  <2> DEFINE content == IF Exists(command[c].name) THEN file[command[c].name] ELSE {}
  <2>1. content \in Files
    BY CommandRead, FileRead, FileTypes
  <2>2. \/ Steps(c, "failed")
        \/ command' = [command EXCEPT ![c].pc = "write", ![c].temp = content]
    BY <1>3 DEF Read
  <2>3. command' \in [Commands -> CommandType]
    <3> HIDE DEF content
    <3> QED BY <2>1, <2>2, StepsTypes
  <2> QED BY <1>3, <2>3 DEF Read, Quiet
<1>4. CASE WriteTemp(c)
  <2>1. CASE command' = [command EXCEPT ![c].pc = "rename",
                           ![c].temp = {c} \cup (IF command[c].init THEN Template ELSE @)]
    <3>1. command[c].pc = "write"
      BY <1>4 DEF WriteTemp
    <3>2. {c} \in SUBSET Changes
      BY DEF Changes
    <3>3. (IF command[c].init THEN Template ELSE command[c].temp) \in Files \ {NoFile}
      <4>1. Template \in Files /\ Template # NoFile
        BY FileTypes DEF Template, NoFile
      <4> QED BY <3>1, <4>1, CommandRead DEF Drafted
    <3>4. {c} \cup (IF command[c].init THEN Template ELSE command[c].temp) \in Files
      BY <3>2, <3>3, FileTypes
    <3>5. command' \in [Commands -> CommandType]
      BY <2>1, <3>4, StepsTypes
    <3> QED BY <1>4, <3>5, FaultTypes DEF WriteTemp, Quiet
  <2>2. CASE command' = [command EXCEPT ![c].pc = "failed", ![c].temp = NoFile]
    <3>1. command' \in [Commands -> CommandType]
      BY <2>2, FileTypes, StepsTypes
    <3> QED BY <1>4, <3>1, FaultTypes DEF WriteTemp, Quiet
  <2> QED BY <1>4, <2>1, <2>2 DEF WriteTemp
<1>5. CASE RenameTemp(c)
  <2>1. command' \in [Commands -> CommandType]
    BY <1>5, FileTypes, StepsTypes DEF RenameTemp
  <2>2. file' \in [Names -> Files]
    BY <1>5, FileWritten, CommandRead DEF RenameTemp
  <2>3. history' \in [Setups -> HistoryType]
    <3>1. Disturbs(c) \in [Setups -> HistoryType]
      BY HistoryTypes
    <3> QED BY <1>5, <3>1 DEF RenameTemp
  <2> QED BY <1>5, <2>1, <2>2, <2>3 DEF RenameTemp, Quiet
<1>6. CASE KillCommand(c)
  <2>1. command' \in [Commands -> CommandType]
    BY <1>6, FileTypes, StepsTypes DEF KillCommand
  <2>2. kills' \in 0..MaxKills
    BY <1>6, KillTypes DEF KillCommand
  <2> QED BY <1>6, <2>1, <2>2 DEF KillCommand, Quiet
<1>7. CASE RenameFails(c)
  <2>1. command' \in [Commands -> CommandType]
    BY <1>7, FileTypes, StepsTypes DEF RenameFails
  <2> QED BY <1>7, <2>1, FaultTypes DEF RenameFails, Quiet
<1> QED BY <1>1, <1>2, <1>3, <1>4, <1>5, <1>6, <1>7 DEF Serve

\* What the step of a setup does: where setup goes, ...
Moved(s, places) ==
  /\ setup'[s].pc \in places /\ setup'[s].kind = setup[s].kind
  /\ \A r \in Setups : r # s => setup'[r] = setup[r]
\* ... what its files become, ...
Filed(s, stage, temp, backup, config, existed) ==
  /\ dir'[s].stage = stage /\ dir'[s].temp = temp /\ dir'[s].backup = backup
  /\ dir'[s].config = config /\ dir'[s].existed = existed
  /\ litter' = litter /\ \A r \in Setups : r # s => dir'[r] = dir[r]
\* ... and .env and mc-server.toml, which it reads or writes.
Contents(env, config) == file'["env"] = env /\ file'["config"] = config

Same(h, g) == h.before = g.before /\ h.rolled = g.rolled /\ (h.calm = TRUE => g.calm = TRUE)
Apart(s) ==
  \A r \in Setups : r # s =>
    /\ setup'[r] = setup[r] /\ dir'[r] = dir[r] /\ litter'[r] = litter[r]
    /\ Same(history'[r], history[r])

\* The changes of others that are in its files were there, or in the two files.
Draws(s) ==
  \A r : r # s /\ r \notin {"token", "no file"} =>
    /\ r \in file'["env"] \cup dir'[s].stage \cup dir'[s].backup =>
         r \in file["env"] \cup dir[s].stage \cup dir[s].backup
    /\ r \in file'["config"] \cup dir'[s].config => r \in file["config"] \cup dir[s].config
\* Its own change is in the two files only once it has written them.
Tells(s) ==
  /\ s \in file'["env"] => s \in file["env"] \/ WroteEnv(setup'[s], history'[s])
  /\ s \in file'["config"] => s \in file["config"] \/ WroteConfig(setup'[s])
  /\ WroteEnv(setup[s], history[s]) => WroteEnv(setup'[s], history'[s])
  /\ WroteConfig(setup[s]) => WroteConfig(setup'[s])
\* A rollback ends with what was there, if nobody writes.
Rewinds(s) ==
  /\ \/ file'["env"] = file["env"]
     \/ \A r \in Setups : r # s => history'[r].calm = FALSE
  /\ history'[s].rolled = TRUE /\ history'[s].calm = TRUE =>
       Rolls(file'["env"], setup'[s], dir'[s], history'[s])

Proper(s) ==
  Apart(s) /\ Own(setup'[s], dir'[s], history'[s], litter'[s]) /\ Draws(s) /\ Tells(s) /\ Rewinds(s)

Inv == TypeInv /\ Spread /\ RolledBack

LEMMA AskProper ==
  ASSUME Inv, NEW s \in Setups, Ask(s) PROVE Proper(s)
<1> USE DEF Inv, TypeInv, TypeOK
<1>1. CASE ConfirmOverwrite(s)
  <2>0. /\ setup[s].pc = "confirm" /\ Own(setup[s], dir[s], history[s], litter[s])
        /\ file' = file /\ history' = history
    BY <1>1 DEF ConfirmOverwrite, At, Owns
  <2>1. CASE /\ Goes(s, IF setup[s].kind = "config" THEN "collect" ELSE "stage")
            /\ dir' = dir
    <3>1. Moved(s, {"collect", "stage"})
      BY <2>1, GoesTypes DEF Moved, Goes
    <3>2. Filed(s, dir[s].stage, dir[s].temp, dir[s].backup, dir[s].config, dir[s].existed)
      BY <2>1 DEF Filed, Goes
    <3>3. Contents(file["env"], file["config"])
      BY <2>0 DEF Contents
    <3>4. history' = history
      BY <2>0
    <3>5. Apart(s)
      BY <3>1, <3>2, <3>4 DEF Moved, Filed, Apart, Same
    <3>6. Own(setup'[s], dir'[s], history'[s], litter'[s])
      BY <2>0, <2>1, <3>1, <3>2, <3>4, FileTypes DEF Own, Ended, Moved, Filed
    <3>7. Draws(s)
      BY <2>0, <3>2, <3>3, FileTypes DEF Own, Draws, Filed, Contents, NoFile, Placeholder
    <3>8. Tells(s)
      BY <2>0, <2>1, <3>1, <3>3, <3>4 DEF Own, Tells, Moved, Contents, WroteEnv, WroteConfig,
         NoFile
    <3>9. Rewinds(s)
      BY <2>0, <2>1, <3>1, <3>2, <3>3, <3>4 DEF Own, Rewinds, RolledBack, Rolls, Moved, Filed,
         Contents, Placeholder
    <3> QED BY <3>5, <3>6, <3>7, <3>8, <3>9 DEF Proper
  <2>2. CASE Ends(s, "failed")
    <3>1. Moved(s, {"failed"})
      BY <2>2, GoesTypes DEF Moved, Ends, Leaves
    <3>2. Removed(s, dir[s].stage, dir[s].temp, dir[s].backup, dir[s].existed, {"stage", "temp"})
      BY <2>2, EndsTypes
    <3>3. Contents(file["env"], file["config"])
      BY <2>0 DEF Contents
    <3>4. history' = history
      BY <2>0
    <3>5. Apart(s)
      BY <3>1, <3>2, <3>4 DEF Moved, Removed, Apart, Same
    <3>6. Own(setup'[s], dir'[s], history'[s], litter'[s])
      BY <2>0, <2>2, <3>1, <3>2, <3>4, FileTypes DEF Own, Ended, Moved, Removed, Parts
    <3>7. Draws(s)
      BY <2>0, <3>2, <3>3, FileTypes DEF Own, Draws, Removed, Contents, NoFile, Placeholder
    <3>8. Tells(s)
      BY <2>0, <2>2, <3>1, <3>3, <3>4 DEF Own, Tells, Moved, Contents, WroteEnv, WroteConfig,
         NoFile
    <3>9. Rewinds(s)
      BY <2>0, <2>2, <3>1, <3>2, <3>3, <3>4 DEF Own, Rewinds, RolledBack, Rolls, Moved, Removed,
         Contents, Placeholder
    <3> QED BY <3>5, <3>6, <3>7, <3>8, <3>9 DEF Proper
  <2> QED BY <1>1, <2>1, <2>2 DEF ConfirmOverwrite
<1>2. CASE CreateStage(s)
  <2> DEFINE content == IF Exists("env") THEN file["env"] ELSE {}
  <2>00. content \in Files
    BY FileTypes, FileRead
  <2>0. /\ setup[s].pc = "stage" /\ Own(setup[s], dir[s], history[s], litter[s])
        /\ file' = file /\ history' = history
    BY <1>2 DEF CreateStage, At, Owns
  <2>1. CASE /\ Goes(s, "answer")
            /\ dir' = [dir EXCEPT ![s] = [dir[s] EXCEPT !.stage = content]]
    <3>1. Moved(s, {"answer"})
      BY <2>1, GoesTypes DEF Moved, Goes
    <3>2. Filed(s, (IF Exists("env") THEN file["env"] ELSE {}), dir[s].temp,
                dir[s].backup, dir[s].config, dir[s].existed)
      BY <2>1 DEF Filed, Goes, DirType, Exists
    <3>3. Contents(file["env"], file["config"])
      BY <2>0 DEF Contents
    <3>4. history' = history
      BY <2>0
    <3>5. Apart(s)
      BY <3>1, <3>2, <3>4 DEF Moved, Filed, Apart, Same
    <3>6. Own(setup'[s], dir'[s], history'[s], litter'[s])
      BY <2>0, <2>1, <3>1, <3>2, <3>4, FileTypes DEF Own, Ended, Moved, Filed, Exists
    <3>7. Draws(s)
      BY <2>0, <3>2, <3>3, FileTypes DEF Own, Draws, Filed, Contents, NoFile, Placeholder
    <3>8. Tells(s)
      BY <2>0, <2>1, <3>1, <3>3, <3>4 DEF Own, Tells, Moved, Contents, WroteEnv, WroteConfig,
         NoFile
    <3>9. Rewinds(s)
      BY <2>0, <2>1, <3>1, <3>2, <3>3, <3>4 DEF Own, Rewinds, RolledBack, Rolls, Moved, Filed,
         Contents, Placeholder
    <3> QED BY <3>5, <3>6, <3>7, <3>8, <3>9 DEF Proper
  <2>2. CASE Leaves(s, "failed", [dir[s] EXCEPT !.stage = content], {"stage"})
    <3>1. Moved(s, {"failed"})
      BY <2>2, GoesTypes DEF Moved, Ends, Leaves
    <3>2. Removed(s, content, dir[s].temp, dir[s].backup, dir[s].existed, {"stage"})
      <4>1. /\ [dir[s] EXCEPT !.stage = content] \in DirType /\ {"stage"} \in SUBSET Parts
            /\ [dir[s] EXCEPT !.stage = content].stage = content
            /\ [dir[s] EXCEPT !.stage = content].temp = dir[s].temp
            /\ [dir[s] EXCEPT !.stage = content].backup = dir[s].backup
            /\ [dir[s] EXCEPT !.stage = content].existed = dir[s].existed
        BY <2>00, DraftTypes DEF DirType, Parts
      <4>2. /\ dir' \in [Setups -> DirType]
            /\ Removed(s, [dir[s] EXCEPT !.stage = content].stage,
                          [dir[s] EXCEPT !.stage = content].temp,
                          [dir[s] EXCEPT !.stage = content].backup,
                          [dir[s] EXCEPT !.stage = content].existed, {"stage"})
        BY <2>2, <4>1, LeavesTypes
      <4> QED BY <4>1, <4>2
    <3>3. Contents(file["env"], file["config"])
      BY <2>0 DEF Contents
    <3>4. history' = history
      BY <2>0
    <3>5. Apart(s)
      BY <3>1, <3>2, <3>4 DEF Moved, Removed, Apart, Same
    <3>6. Own(setup'[s], dir'[s], history'[s], litter'[s])
      BY <2>0, <2>2, <3>1, <3>2, <3>4, FileTypes DEF Own, Ended, Moved, Removed, Parts
    <3>7. Draws(s)
      BY <2>0, <3>2, <3>3, FileTypes DEF Own, Draws, Removed, Contents, NoFile, Placeholder
    <3>8. Tells(s)
      BY <2>0, <2>2, <3>1, <3>3, <3>4 DEF Own, Tells, Moved, Contents, WroteEnv, WroteConfig,
         NoFile
    <3>9. Rewinds(s)
      BY <2>0, <2>2, <3>1, <3>2, <3>3, <3>4 DEF Own, Rewinds, RolledBack, Rolls, Moved, Removed,
         Contents, Placeholder
    <3> QED BY <3>5, <3>6, <3>7, <3>8, <3>9 DEF Proper
  <2> QED BY <1>2, <2>1, <2>2 DEF CreateStage
<1>3. CASE Answer(s)
  <2>0. /\ setup[s].pc = "answer" /\ Own(setup[s], dir[s], history[s], litter[s])
        /\ file' = file /\ history' = history
    BY <1>3 DEF Answer, At, Owns
  <2>1. CASE /\ Goes(s, IF setup[s].kind = "both" THEN "collect" ELSE "review")
            /\ dir' = [dir EXCEPT ![s].stage = @ \cup {"token", s}]
    <3>1. Moved(s, {"collect", "review"})
      BY <2>1, GoesTypes DEF Moved, Goes
    <3>2. Filed(s, dir[s].stage \cup {"token", s}, dir[s].temp,
                dir[s].backup, dir[s].config, dir[s].existed)
      BY <2>1 DEF Filed, Goes, DirType
    <3>3. Contents(file["env"], file["config"])
      BY <2>0 DEF Contents
    <3>4. history' = history
      BY <2>0
    <3>5. Apart(s)
      BY <3>1, <3>2, <3>4 DEF Moved, Filed, Apart, Same
    <3>6. Own(setup'[s], dir'[s], history'[s], litter'[s])
      BY <2>0, <2>1, <3>1, <3>2, <3>4, FileTypes DEF Own, Ended, Moved, Filed
    <3>7. Draws(s)
      BY <2>0, <3>2, <3>3, FileTypes DEF Own, Draws, Filed, Contents, NoFile, Placeholder
    <3>8. Tells(s)
      BY <2>0, <2>1, <3>1, <3>3, <3>4 DEF Own, Tells, Moved, Contents, WroteEnv, WroteConfig,
         NoFile
    <3>9. Rewinds(s)
      BY <2>0, <2>1, <3>1, <3>2, <3>3, <3>4 DEF Own, Rewinds, RolledBack, Rolls, Moved, Filed,
         Contents, Placeholder
    <3> QED BY <3>5, <3>6, <3>7, <3>8, <3>9 DEF Proper
  <2>2. CASE Ends(s, "failed")
    <3>1. Moved(s, {"failed"})
      BY <2>2, GoesTypes DEF Moved, Ends, Leaves
    <3>2. Removed(s, dir[s].stage, dir[s].temp, dir[s].backup, dir[s].existed, {"stage", "temp"})
      BY <2>2, EndsTypes
    <3>3. Contents(file["env"], file["config"])
      BY <2>0 DEF Contents
    <3>4. history' = history
      BY <2>0
    <3>5. Apart(s)
      BY <3>1, <3>2, <3>4 DEF Moved, Removed, Apart, Same
    <3>6. Own(setup'[s], dir'[s], history'[s], litter'[s])
      BY <2>0, <2>2, <3>1, <3>2, <3>4, FileTypes DEF Own, Ended, Moved, Removed, Parts
    <3>7. Draws(s)
      BY <2>0, <3>2, <3>3, FileTypes DEF Own, Draws, Removed, Contents, NoFile, Placeholder
    <3>8. Tells(s)
      BY <2>0, <2>2, <3>1, <3>3, <3>4 DEF Own, Tells, Moved, Contents, WroteEnv, WroteConfig,
         NoFile
    <3>9. Rewinds(s)
      BY <2>0, <2>2, <3>1, <3>2, <3>3, <3>4 DEF Own, Rewinds, RolledBack, Rolls, Moved, Removed,
         Contents, Placeholder
    <3> QED BY <3>5, <3>6, <3>7, <3>8, <3>9 DEF Proper
  <2> QED BY <1>3, <2>1, <2>2 DEF Answer
<1>4. CASE Collect(s)
  <2>0. /\ setup[s].pc = "collect" /\ Own(setup[s], dir[s], history[s], litter[s])
        /\ file' = file /\ history' = history
    BY <1>4 DEF Collect, At, Owns
  <2>1. CASE /\ Goes(s, "review")
            /\ dir' = [dir EXCEPT ![s].config = {s} \cup (IF Exists("config") /\ "broken" \notin file["config"]
                                           THEN file["config"] ELSE {})]
    <3>1. Moved(s, {"review"})
      BY <2>1, GoesTypes DEF Moved, Goes
    <3>2. Filed(s, dir[s].stage, dir[s].temp, dir[s].backup,
                {s} \cup (IF Exists("config") /\ "broken" \notin file["config"]
                                           THEN file["config"] ELSE {}), dir[s].existed)
      BY <2>1 DEF Filed, Goes, DirType, Exists
    <3>3. Contents(file["env"], file["config"])
      BY <2>0 DEF Contents
    <3>4. history' = history
      BY <2>0
    <3>5. Apart(s)
      BY <3>1, <3>2, <3>4 DEF Moved, Filed, Apart, Same
    <3>6. Own(setup'[s], dir'[s], history'[s], litter'[s])
      BY <2>0, <2>1, <3>1, <3>2, <3>4, FileTypes DEF Own, Ended, Moved, Filed, Exists
    <3>7. Draws(s)
      BY <2>0, <3>2, <3>3, FileTypes DEF Own, Draws, Filed, Contents, NoFile, Placeholder
    <3>8. Tells(s)
      BY <2>0, <2>1, <3>1, <3>3, <3>4 DEF Own, Tells, Moved, Contents, WroteEnv, WroteConfig,
         NoFile
    <3>9. Rewinds(s)
      BY <2>0, <2>1, <3>1, <3>2, <3>3, <3>4 DEF Own, Rewinds, RolledBack, Rolls, Moved, Filed,
         Contents, Placeholder
    <3> QED BY <3>5, <3>6, <3>7, <3>8, <3>9 DEF Proper
  <2>2. CASE Ends(s, "failed")
    <3>1. Moved(s, {"failed"})
      BY <2>2, GoesTypes DEF Moved, Ends, Leaves
    <3>2. Removed(s, dir[s].stage, dir[s].temp, dir[s].backup, dir[s].existed, {"stage", "temp"})
      BY <2>2, EndsTypes
    <3>3. Contents(file["env"], file["config"])
      BY <2>0 DEF Contents
    <3>4. history' = history
      BY <2>0
    <3>5. Apart(s)
      BY <3>1, <3>2, <3>4 DEF Moved, Removed, Apart, Same
    <3>6. Own(setup'[s], dir'[s], history'[s], litter'[s])
      BY <2>0, <2>2, <3>1, <3>2, <3>4, FileTypes DEF Own, Ended, Moved, Removed, Parts
    <3>7. Draws(s)
      BY <2>0, <3>2, <3>3, FileTypes DEF Own, Draws, Removed, Contents, NoFile, Placeholder
    <3>8. Tells(s)
      BY <2>0, <2>2, <3>1, <3>3, <3>4 DEF Own, Tells, Moved, Contents, WroteEnv, WroteConfig,
         NoFile
    <3>9. Rewinds(s)
      BY <2>0, <2>2, <3>1, <3>2, <3>3, <3>4 DEF Own, Rewinds, RolledBack, Rolls, Moved, Removed,
         Contents, Placeholder
    <3> QED BY <3>5, <3>6, <3>7, <3>8, <3>9 DEF Proper
  <2> QED BY <1>4, <2>1, <2>2 DEF Collect
<1>5. CASE Review(s)
  <2>0. /\ setup[s].pc = "review" /\ Own(setup[s], dir[s], history[s], litter[s])
        /\ file' = file /\ history' = history
    BY <1>5 DEF Review, At, Owns
  <2>1. CASE setup[s].kind = "both" /\ Goes(s, "prepare") /\ dir' = dir
    <3>1. Moved(s, {"prepare"})
      BY <2>1, GoesTypes DEF Moved, Goes
    <3>2. Filed(s, dir[s].stage, dir[s].temp, dir[s].backup, dir[s].config, dir[s].existed)
      BY <2>1 DEF Filed, Goes
    <3>3. Contents(file["env"], file["config"])
      BY <2>0 DEF Contents
    <3>4. history' = history
      BY <2>0
    <3>5. Apart(s)
      BY <3>1, <3>2, <3>4 DEF Moved, Filed, Apart, Same
    <3>6. Own(setup'[s], dir'[s], history'[s], litter'[s])
      BY <2>0, <2>1, <3>1, <3>2, <3>4, FileTypes DEF Own, Ended, Moved, Filed
    <3>7. Draws(s)
      BY <2>0, <3>2, <3>3, FileTypes DEF Own, Draws, Filed, Contents, NoFile, Placeholder
    <3>8. Tells(s)
      BY <2>0, <2>1, <3>1, <3>3, <3>4 DEF Own, Tells, Moved, Contents, WroteEnv, WroteConfig,
         NoFile
    <3>9. Rewinds(s)
      BY <2>0, <2>1, <3>1, <3>2, <3>3, <3>4 DEF Own, Rewinds, RolledBack, Rolls, Moved, Filed,
         Contents, Placeholder
    <3> QED BY <3>5, <3>6, <3>7, <3>8, <3>9 DEF Proper
  <2>2. CASE /\ setup[s].kind # "both"
            /\ (Goes(s, "commit") \/ Goes(s, "write"))
            /\ dir' = dir
    <3>1. Moved(s, {"commit", "write"})
      BY <2>2, GoesTypes DEF Moved, Goes
    <3>2. Filed(s, dir[s].stage, dir[s].temp, dir[s].backup, dir[s].config, dir[s].existed)
      BY <2>2 DEF Filed, Goes
    <3>3. Contents(file["env"], file["config"])
      BY <2>0 DEF Contents
    <3>4. history' = history
      BY <2>0
    <3>5. Apart(s)
      BY <3>1, <3>2, <3>4 DEF Moved, Filed, Apart, Same
    <3>6. Own(setup'[s], dir'[s], history'[s], litter'[s])
      BY <2>0, <2>2, <3>1, <3>2, <3>4, FileTypes DEF Own, Ended, Moved, Filed
    <3>7. Draws(s)
      BY <2>0, <3>2, <3>3, FileTypes DEF Own, Draws, Filed, Contents, NoFile, Placeholder
    <3>8. Tells(s)
      BY <2>0, <2>2, <3>1, <3>3, <3>4 DEF Own, Tells, Moved, Contents, WroteEnv, WroteConfig,
         NoFile
    <3>9. Rewinds(s)
      BY <2>0, <2>2, <3>1, <3>2, <3>3, <3>4 DEF Own, Rewinds, RolledBack, Rolls, Moved, Filed,
         Contents, Placeholder
    <3> QED BY <3>5, <3>6, <3>7, <3>8, <3>9 DEF Proper
  <2>3. CASE Ends(s, "failed")
    <3>1. Moved(s, {"failed"})
      BY <2>3, GoesTypes DEF Moved, Ends, Leaves
    <3>2. Removed(s, dir[s].stage, dir[s].temp, dir[s].backup, dir[s].existed, {"stage", "temp"})
      BY <2>3, EndsTypes
    <3>3. Contents(file["env"], file["config"])
      BY <2>0 DEF Contents
    <3>4. history' = history
      BY <2>0
    <3>5. Apart(s)
      BY <3>1, <3>2, <3>4 DEF Moved, Removed, Apart, Same
    <3>6. Own(setup'[s], dir'[s], history'[s], litter'[s])
      BY <2>0, <2>3, <3>1, <3>2, <3>4, FileTypes DEF Own, Ended, Moved, Removed, Parts
    <3>7. Draws(s)
      BY <2>0, <3>2, <3>3, FileTypes DEF Own, Draws, Removed, Contents, NoFile, Placeholder
    <3>8. Tells(s)
      BY <2>0, <2>3, <3>1, <3>3, <3>4 DEF Own, Tells, Moved, Contents, WroteEnv, WroteConfig,
         NoFile
    <3>9. Rewinds(s)
      BY <2>0, <2>3, <3>1, <3>2, <3>3, <3>4 DEF Own, Rewinds, RolledBack, Rolls, Moved, Removed,
         Contents, Placeholder
    <3> QED BY <3>5, <3>6, <3>7, <3>8, <3>9 DEF Proper
  <2> QED BY <1>5, <2>1, <2>2, <2>3 DEF Review, SetupType
<1> QED BY <1>1, <1>2, <1>3, <1>4, <1>5 DEF Ask

LEMMA WriteProper ==
  ASSUME Inv, NEW s \in Setups, Write(s) PROVE Proper(s)
<1> USE DEF Inv, TypeInv, TypeOK
<1>1. CASE PrepareRollback(s)
  <2> DEFINE content == IF Exists("env") THEN file["env"] ELSE Placeholder
             kept == [dir[s] EXCEPT !.backup = content, !.existed = Exists("env")]
  <2>00. /\ kept \in DirType /\ kept.stage = dir[s].stage /\ kept.temp = dir[s].temp
         /\ kept.backup = content /\ kept.existed = Exists("env")
         /\ kept.config = dir[s].config
    <3>1. content \in Files /\ Exists("env") \in BOOLEAN
      BY FileTypes, FileRead DEF Exists
    <3> HIDE DEF content
    <3> QED BY <3>1 DEF DirType
  <2>0. setup[s].pc = "prepare" /\ Own(setup[s], dir[s], history[s], litter[s]) /\ file' = file
    BY <1>1 DEF PrepareRollback, At, Owns
  <2>1. CASE /\ Goes(s, "commit")
            /\ dir' = [dir EXCEPT ![s] = kept]
            /\ history' = [history EXCEPT ![s].before = file["env"]]
    <3>1. Moved(s, {"commit"})
      BY <2>1, GoesTypes DEF Moved, Goes
    <3>2. Filed(s, dir[s].stage,
                dir[s].temp, (IF Exists("env") THEN file["env"] ELSE Placeholder), dir[s].config, Exists("env"))
      BY <2>1 DEF Filed, Goes, DirType, Exists
    <3>3. Contents(file["env"], file["config"])
      BY <2>0 DEF Contents
    <3>4. /\ history'[s].before = file["env"] /\ history'[s].rolled = history[s].rolled
          /\ \A r \in Setups : r # s => history'[r] = history[r]
      BY <2>1 DEF HistoryType
    <3>5. Apart(s)
      BY <3>1, <3>2, <3>4 DEF Moved, Filed, Apart, Same
    <3>6. Own(setup'[s], dir'[s], history'[s], litter'[s])
      <4>1. dir'[s].existed = TRUE <=> history'[s].before # NoFile
        BY <3>2, <3>4 DEF Filed, Exists
      <4>2. dir'[s].backup = IF dir'[s].existed = TRUE THEN history'[s].before ELSE Placeholder
        BY <3>2, <3>4 DEF Filed, Exists
      <4> QED BY <2>0, <3>1, <3>2, <3>4, <4>1, <4>2 DEF Own, Ended, Moved, Filed
    <3>7. Draws(s)
      BY <2>0, <3>2, <3>3, FileTypes DEF Own, Draws, Filed, Contents, NoFile, Placeholder
    <3>8. Tells(s)
      BY <2>0, <2>1, <3>1, <3>3, <3>4 DEF Own, Tells, Moved, Contents, WroteEnv, WroteConfig,
         NoFile
    <3>9. Rewinds(s)
      BY <2>0, <2>1, <3>1, <3>2, <3>3, <3>4 DEF Own, Rewinds, RolledBack, Rolls, Moved, Filed,
         Contents, Placeholder
    <3> QED BY <3>5, <3>6, <3>7, <3>8, <3>9 DEF Proper
  <2>2. CASE Leaves(s, "failed", kept, Parts) /\ history' = history
    <3>1. Moved(s, {"failed"})
      BY <2>2, GoesTypes DEF Moved, Ends, Leaves
    <3>2. Removed(s, dir[s].stage, dir[s].temp, content, Exists("env"), Parts)
      <4>1. /\ dir' \in [Setups -> DirType]
            /\ Removed(s, kept.stage, kept.temp, kept.backup, kept.existed, Parts)
        <5> HIDE DEF kept
        <5> QED BY <2>2, <2>00, LeavesTypes
      <4> QED BY <4>1, <2>00
    <3>3. Contents(file["env"], file["config"])
      BY <2>0 DEF Contents
    <3>4. history' = history
      BY <2>2
    <3>5. Apart(s)
      BY <3>1, <3>2, <3>4 DEF Moved, Removed, Apart, Same
    <3>6. Own(setup'[s], dir'[s], history'[s], litter'[s])
      BY <2>0, <2>2, <3>1, <3>2, <3>4, FileTypes DEF Own, Ended, Moved, Removed, Parts
    <3>7. Draws(s)
      BY <2>0, <3>2, <3>3, FileTypes DEF Own, Draws, Removed, Contents, NoFile, Placeholder
    <3>8. Tells(s)
      BY <2>0, <2>2, <3>1, <3>3, <3>4 DEF Own, Tells, Moved, Contents, WroteEnv, WroteConfig,
         NoFile
    <3>9. Rewinds(s)
      BY <2>0, <2>2, <3>1, <3>2, <3>3, <3>4 DEF Own, Rewinds, RolledBack, Rolls, Moved, Removed,
         Contents, Placeholder
    <3> QED BY <3>5, <3>6, <3>7, <3>8, <3>9 DEF Proper
  <2> QED BY <1>1, <2>1, <2>2 DEF PrepareRollback
<1>2. CASE Commit(s)
  <2> DEFINE written == [dir[s] EXCEPT !.temp = dir[s].stage]
  <2>00. /\ written \in DirType
         /\ written.stage = dir[s].stage /\ written.existed = dir[s].existed
         /\ written.temp = dir[s].stage
         /\ written.backup = dir[s].backup
    BY DraftTypes, SingleTypes, FileTypes, FileRead DEF DirType
  <2>0. /\ setup[s].pc = "commit" /\ Own(setup[s], dir[s], history[s], litter[s])
        /\ file' = file /\ history' = history
    BY <1>2 DEF Commit, At, Owns
  <2>1. CASE Goes(s, "rename") /\ dir' = [dir EXCEPT ![s].temp = dir[s].stage]
    <3>1. Moved(s, {"rename"})
      BY <2>1, GoesTypes DEF Moved, Goes
    <3>2. Filed(s, dir[s].stage, dir[s].stage, dir[s].backup, dir[s].config, dir[s].existed)
      BY <2>1 DEF Filed, Goes, DirType
    <3>3. Contents(file["env"], file["config"])
      BY <2>0 DEF Contents
    <3>4. history' = history
      BY <2>0
    <3>5. Apart(s)
      BY <3>1, <3>2, <3>4 DEF Moved, Filed, Apart, Same
    <3>6. Own(setup'[s], dir'[s], history'[s], litter'[s])
      BY <2>0, <2>1, <3>1, <3>2, <3>4, FileTypes DEF Own, Ended, Moved, Filed
    <3>7. Draws(s)
      BY <2>0, <3>2, <3>3, FileTypes DEF Own, Draws, Filed, Contents, NoFile, Placeholder
    <3>8. Tells(s)
      BY <2>0, <2>1, <3>1, <3>3, <3>4 DEF Own, Tells, Moved, Contents, WroteEnv, WroteConfig,
         NoFile
    <3>9. Rewinds(s)
      BY <2>0, <2>1, <3>1, <3>2, <3>3, <3>4 DEF Own, Rewinds, RolledBack, Rolls, Moved, Filed,
         Contents, Placeholder
    <3> QED BY <3>5, <3>6, <3>7, <3>8, <3>9 DEF Proper
  <2>2. CASE Leaves(s, "failed", written, Parts)
    <3>1. Moved(s, {"failed"})
      BY <2>2, GoesTypes DEF Moved, Leaves
    <3>2. Removed(s, dir[s].stage, dir[s].stage, dir[s].backup, dir[s].existed, Parts)
      <4>1. /\ dir' \in [Setups -> DirType]
            /\ Removed(s, written.stage, written.temp, written.backup, written.existed, Parts)
        <5> HIDE DEF written
        <5> QED BY <2>2, <2>00, LeavesTypes
      <4> QED BY <4>1, <2>00
    <3>3. Contents(file["env"], file["config"])
      BY <2>0 DEF Contents
    <3>4. history' = history
      BY <2>0
    <3>5. Apart(s)
      BY <3>1, <3>2, <3>4 DEF Moved, Removed, Apart, Same
    <3>6. Own(setup'[s], dir'[s], history'[s], litter'[s])
      BY <2>0, <2>2, <3>1, <3>2, <3>4, FileTypes DEF Own, Ended, Moved, Removed, Parts
    <3>7. Draws(s)
      BY <2>0, <3>2, <3>3, FileTypes DEF Own, Draws, Removed, Contents, NoFile, Placeholder
    <3>8. Tells(s)
      BY <2>0, <2>2, <3>1, <3>3, <3>4 DEF Own, Tells, Moved, Contents, WroteEnv, WroteConfig,
         NoFile
    <3>9. Rewinds(s)
      BY <2>0, <2>2, <3>1, <3>2, <3>3, <3>4 DEF Own, Rewinds, RolledBack, Rolls, Moved, Removed,
         Contents, Placeholder
    <3> QED BY <3>5, <3>6, <3>7, <3>8, <3>9 DEF Proper
  <2> QED BY <1>2, <2>1, <2>2 DEF Commit
<1>3. CASE RenameEnv(s)
  <2>0. setup[s].pc = "rename" /\ Own(setup[s], dir[s], history[s], litter[s])
    BY <1>3 DEF RenameEnv, At, Owns
  <2>1. CASE /\ setup[s].kind = "both"
            /\ Goes(s, "write")
            /\ file' = [file EXCEPT !["env"] = dir[s].temp]
            /\ dir' = [dir EXCEPT ![s].temp = NoFile]
            /\ history' = Disturbs(s)
    <3>1. Moved(s, {"write"})
      BY <2>1, GoesTypes DEF Moved, Goes
    <3>2. Filed(s, dir[s].stage, NoFile, dir[s].backup, dir[s].config, dir[s].existed)
      BY <2>1 DEF Filed, Goes, DirType
    <3>3. Contents(dir[s].temp, file["config"])
      BY <2>1 DEF Contents, Names
    <3>4. /\ history'[s] = history[s]
          /\ \A r \in Setups : r # s => Same(history'[r], history[r]) /\ history'[r].calm = FALSE
      BY <2>1 DEF Disturbs, Same, HistoryType
    <3>5. Apart(s)
      BY <3>1, <3>2, <3>4 DEF Moved, Filed, Apart, Same
    <3>6. Own(setup'[s], dir'[s], history'[s], litter'[s])
      BY <2>0, <2>1, <3>1, <3>2, <3>4, FileTypes DEF Own, Ended, Moved, Filed
    <3>7. Draws(s)
      BY <2>0, <3>2, <3>3, FileTypes DEF Own, Draws, Filed, Contents, NoFile, Placeholder
    <3>8. Tells(s)
      BY <2>0, <2>1, <3>1, <3>3, <3>4 DEF Own, Tells, Moved, Contents, WroteEnv, WroteConfig,
         NoFile
    <3>9. Rewinds(s)
      BY <2>0, <2>1, <3>1, <3>2, <3>3, <3>4 DEF Own, Rewinds, RolledBack, Rolls, Moved, Filed,
         Contents, Placeholder
    <3> QED BY <3>5, <3>6, <3>7, <3>8, <3>9 DEF Proper
  <2>2. CASE /\ setup[s].kind # "both"
            /\ Goes(s, "validate")
            /\ file' = [file EXCEPT !["env"] = dir[s].temp]
            /\ dir' = [dir EXCEPT ![s].temp = NoFile]
            /\ history' = Disturbs(s)
    <3>1. Moved(s, {"validate"})
      BY <2>2, GoesTypes DEF Moved, Goes
    <3>2. Filed(s, dir[s].stage, NoFile, dir[s].backup, dir[s].config, dir[s].existed)
      BY <2>2 DEF Filed, Goes, DirType
    <3>3. Contents(dir[s].temp, file["config"])
      BY <2>2 DEF Contents, Names
    <3>4. /\ history'[s] = history[s]
          /\ \A r \in Setups : r # s => Same(history'[r], history[r]) /\ history'[r].calm = FALSE
      BY <2>2 DEF Disturbs, Same, HistoryType
    <3>5. Apart(s)
      BY <3>1, <3>2, <3>4 DEF Moved, Filed, Apart, Same
    <3>6. Own(setup'[s], dir'[s], history'[s], litter'[s])
      BY <2>0, <2>2, <3>1, <3>2, <3>4, FileTypes DEF Own, Ended, Moved, Filed
    <3>7. Draws(s)
      BY <2>0, <3>2, <3>3, FileTypes DEF Own, Draws, Filed, Contents, NoFile, Placeholder
    <3>8. Tells(s)
      BY <2>0, <2>2, <3>1, <3>3, <3>4 DEF Own, Tells, Moved, Contents, WroteEnv, WroteConfig,
         NoFile
    <3>9. Rewinds(s)
      BY <2>0, <2>2, <3>1, <3>2, <3>3, <3>4 DEF Own, Rewinds, RolledBack, Rolls, Moved, Filed,
         Contents, Placeholder
    <3> QED BY <3>5, <3>6, <3>7, <3>8, <3>9 DEF Proper
  <2>3. CASE Leaves(s, "failed", dir[s], Parts) /\ UNCHANGED <<file, history>>
    <3>1. Moved(s, {"failed"})
      BY <2>3, GoesTypes DEF Moved, Leaves
    <3>2. Removed(s, dir[s].stage, dir[s].temp, dir[s].backup, dir[s].existed, Parts)
      BY <2>3, LeavesTypes
    <3>3. Contents(file["env"], file["config"])
      BY <2>3 DEF Contents
    <3>4. history' = history
      BY <2>3
    <3>5. Apart(s)
      BY <3>1, <3>2, <3>4 DEF Moved, Removed, Apart, Same
    <3>6. Own(setup'[s], dir'[s], history'[s], litter'[s])
      BY <2>0, <2>3, <3>1, <3>2, <3>4, FileTypes DEF Own, Ended, Moved, Removed, Parts
    <3>7. Draws(s)
      BY <2>0, <3>2, <3>3, FileTypes DEF Own, Draws, Removed, Contents, NoFile, Placeholder
    <3>8. Tells(s)
      BY <2>0, <2>3, <3>1, <3>3, <3>4 DEF Own, Tells, Moved, Contents, WroteEnv, WroteConfig,
         NoFile
    <3>9. Rewinds(s)
      BY <2>0, <2>3, <3>1, <3>2, <3>3, <3>4 DEF Own, Rewinds, RolledBack, Rolls, Moved, Removed,
         Contents, Placeholder
    <3> QED BY <3>5, <3>6, <3>7, <3>8, <3>9 DEF Proper
  <2> QED BY <1>3, <2>1, <2>2, <2>3 DEF RenameEnv
<1>4. CASE WriteConfig(s)
  <2> DEFINE written == [dir[s] EXCEPT !.temp = dir[s].config]
  <2>00. /\ written \in DirType
         /\ written.stage = dir[s].stage /\ written.existed = dir[s].existed
         /\ written.temp = dir[s].config
         /\ written.backup = dir[s].backup
    BY DraftTypes, SingleTypes, FileTypes, FileRead DEF DirType
  <2>0. /\ setup[s].pc = "write" /\ Own(setup[s], dir[s], history[s], litter[s])
        /\ file' = file /\ history' = history
    BY <1>4 DEF WriteConfig, FailsToWrite, At, Owns
  <2>1. CASE Goes(s, "install") /\ dir' = [dir EXCEPT ![s].temp = dir[s].config]
    <3>1. Moved(s, {"install"})
      BY <2>1, GoesTypes DEF Moved, Goes
    <3>2. Filed(s, dir[s].stage, dir[s].config, dir[s].backup, dir[s].config, dir[s].existed)
      BY <2>1 DEF Filed, Goes, DirType
    <3>3. Contents(file["env"], file["config"])
      BY <2>0 DEF Contents
    <3>4. history' = history
      BY <2>0
    <3>5. Apart(s)
      BY <3>1, <3>2, <3>4 DEF Moved, Filed, Apart, Same
    <3>6. Own(setup'[s], dir'[s], history'[s], litter'[s])
      BY <2>0, <2>1, <3>1, <3>2, <3>4, FileTypes DEF Own, Ended, Moved, Filed
    <3>7. Draws(s)
      BY <2>0, <3>2, <3>3, FileTypes DEF Own, Draws, Filed, Contents, NoFile, Placeholder
    <3>8. Tells(s)
      BY <2>0, <2>1, <3>1, <3>3, <3>4 DEF Own, Tells, Moved, Contents, WroteEnv, WroteConfig,
         NoFile
    <3>9. Rewinds(s)
      BY <2>0, <2>1, <3>1, <3>2, <3>3, <3>4 DEF Own, Rewinds, RolledBack, Rolls, Moved, Filed,
         Contents, Placeholder
    <3> QED BY <3>5, <3>6, <3>7, <3>8, <3>9 DEF Proper
  <2>2. CASE /\ setup[s].kind = "both"
            /\ Leaves(s, "restore", written, {"temp"})
    <3>1. Moved(s, {"restore"})
      BY <2>2, GoesTypes DEF Moved, Leaves
    <3>2. Removed(s, dir[s].stage, dir[s].config, dir[s].backup, dir[s].existed, {"temp"})
      <4>1. /\ dir' \in [Setups -> DirType]
            /\ Removed(s, written.stage, written.temp, written.backup, written.existed, {"temp"})
        <5> HIDE DEF written
        <5> QED BY <2>2, <2>00, LeavesTypes DEF Parts
      <4> QED BY <4>1, <2>00
    <3>3. Contents(file["env"], file["config"])
      BY <2>0 DEF Contents
    <3>4. history' = history
      BY <2>0
    <3>5. Apart(s)
      BY <3>1, <3>2, <3>4 DEF Moved, Removed, Apart, Same
    <3>6. Own(setup'[s], dir'[s], history'[s], litter'[s])
      BY <2>0, <2>2, <3>1, <3>2, <3>4, FileTypes DEF Own, Ended, Moved, Removed, Parts
    <3>7. Draws(s)
      BY <2>0, <3>2, <3>3, FileTypes DEF Own, Draws, Removed, Contents, NoFile, Placeholder
    <3>8. Tells(s)
      BY <2>0, <2>2, <3>1, <3>3, <3>4 DEF Own, Tells, Moved, Contents, WroteEnv, WroteConfig,
         NoFile
    <3>9. Rewinds(s)
      BY <2>0, <2>2, <3>1, <3>2, <3>3, <3>4 DEF Own, Rewinds, RolledBack, Rolls, Moved, Removed,
         Contents, Placeholder
    <3> QED BY <3>5, <3>6, <3>7, <3>8, <3>9 DEF Proper
  <2>3. CASE /\ Leaves(s, "failed", written, {"stage", "temp"})
            /\ setup[s].kind # "both"
    <3>1. Moved(s, {"failed"})
      BY <2>3, GoesTypes DEF Moved, Ends, Leaves
    <3>2. Removed(s, dir[s].stage, dir[s].config, dir[s].backup, dir[s].existed, {"stage", "temp"})
      <4>1. /\ dir' \in [Setups -> DirType]
            /\ Removed(s, written.stage, written.temp, written.backup, written.existed,
                       {"stage", "temp"})
        <5> HIDE DEF written
        <5> QED BY <2>3, <2>00, LeavesTypes DEF Parts
      <4> QED BY <4>1, <2>00
    <3>3. Contents(file["env"], file["config"])
      BY <2>0 DEF Contents
    <3>4. history' = history
      BY <2>0
    <3>5. Apart(s)
      BY <3>1, <3>2, <3>4 DEF Moved, Removed, Apart, Same
    <3>6. Own(setup'[s], dir'[s], history'[s], litter'[s])
      BY <2>0, <2>3, <3>1, <3>2, <3>4, FileTypes DEF Own, Ended, Moved, Removed, Parts
    <3>7. Draws(s)
      BY <2>0, <3>2, <3>3, FileTypes DEF Own, Draws, Removed, Contents, NoFile, Placeholder
    <3>8. Tells(s)
      BY <2>0, <2>3, <3>1, <3>3, <3>4 DEF Own, Tells, Moved, Contents, WroteEnv, WroteConfig,
         NoFile
    <3>9. Rewinds(s)
      BY <2>0, <2>3, <3>1, <3>2, <3>3, <3>4 DEF Own, Rewinds, RolledBack, Rolls, Moved, Removed,
         Contents, Placeholder
    <3> QED BY <3>5, <3>6, <3>7, <3>8, <3>9 DEF Proper
  <2> QED BY <1>4, <2>1, <2>2, <2>3 DEF WriteConfig, FailsToWrite
<1>5. CASE RenameConfig(s)
  <2> DEFINE written == [dir[s] EXCEPT !.temp = dir[s].config]
  <2>00. /\ written \in DirType
         /\ written.stage = dir[s].stage /\ written.existed = dir[s].existed
         /\ written.temp = dir[s].config
         /\ written.backup = dir[s].backup
    BY DraftTypes, SingleTypes, FileTypes, FileRead DEF DirType
  <2>0. setup[s].pc = "install" /\ Own(setup[s], dir[s], history[s], litter[s]) /\ history' = history
    BY <1>5 DEF RenameConfig, FailsToWrite, At, Owns
  <2>1. CASE /\ setup[s].kind = "both"
            /\ Goes(s, "clean")
            /\ file' = [file EXCEPT !["config"] = dir[s].temp]
            /\ dir' = [dir EXCEPT ![s].temp = NoFile]
    <3>1. Moved(s, {"clean"})
      BY <2>1, GoesTypes DEF Moved, Goes
    <3>2. Filed(s, dir[s].stage, NoFile, dir[s].backup, dir[s].config, dir[s].existed)
      BY <2>1 DEF Filed, Goes, DirType
    <3>3. Contents(file["env"], dir[s].temp)
      BY <2>1 DEF Contents, Names
    <3>4. history' = history
      BY <2>0
    <3>5. Apart(s)
      BY <3>1, <3>2, <3>4 DEF Moved, Filed, Apart, Same
    <3>6. Own(setup'[s], dir'[s], history'[s], litter'[s])
      BY <2>0, <2>1, <3>1, <3>2, <3>4, FileTypes DEF Own, Ended, Moved, Filed
    <3>7. Draws(s)
      BY <2>0, <3>2, <3>3, FileTypes DEF Own, Draws, Filed, Contents, NoFile, Placeholder
    <3>8. Tells(s)
      BY <2>0, <2>1, <3>1, <3>3, <3>4 DEF Own, Tells, Moved, Contents, WroteEnv, WroteConfig,
         NoFile
    <3>9. Rewinds(s)
      BY <2>0, <2>1, <3>1, <3>2, <3>3, <3>4 DEF Own, Rewinds, RolledBack, Rolls, Moved, Filed,
         Contents, Placeholder
    <3> QED BY <3>5, <3>6, <3>7, <3>8, <3>9 DEF Proper
  <2>2. CASE /\ setup[s].kind # "both"
            /\ Goes(s, "validate")
            /\ file' = [file EXCEPT !["config"] = dir[s].temp]
            /\ dir' = [dir EXCEPT ![s].temp = NoFile]
    <3>1. Moved(s, {"validate"})
      BY <2>2, GoesTypes DEF Moved, Goes
    <3>2. Filed(s, dir[s].stage, NoFile, dir[s].backup, dir[s].config, dir[s].existed)
      BY <2>2 DEF Filed, Goes, DirType
    <3>3. Contents(file["env"], dir[s].temp)
      BY <2>2 DEF Contents, Names
    <3>4. history' = history
      BY <2>0
    <3>5. Apart(s)
      BY <3>1, <3>2, <3>4 DEF Moved, Filed, Apart, Same
    <3>6. Own(setup'[s], dir'[s], history'[s], litter'[s])
      BY <2>0, <2>2, <3>1, <3>2, <3>4, FileTypes DEF Own, Ended, Moved, Filed
    <3>7. Draws(s)
      BY <2>0, <3>2, <3>3, FileTypes DEF Own, Draws, Filed, Contents, NoFile, Placeholder
    <3>8. Tells(s)
      BY <2>0, <2>2, <3>1, <3>3, <3>4 DEF Own, Tells, Moved, Contents, WroteEnv, WroteConfig,
         NoFile
    <3>9. Rewinds(s)
      BY <2>0, <2>2, <3>1, <3>2, <3>3, <3>4 DEF Own, Rewinds, RolledBack, Rolls, Moved, Filed,
         Contents, Placeholder
    <3> QED BY <3>5, <3>6, <3>7, <3>8, <3>9 DEF Proper
  <2>3. CASE /\ setup[s].kind = "both"
            /\ Leaves(s, "restore", written, {"temp"})
            /\ file' = file
    <3>1. Moved(s, {"restore"})
      BY <2>3, GoesTypes DEF Moved, Leaves
    <3>2. Removed(s, dir[s].stage, dir[s].config, dir[s].backup, dir[s].existed, {"temp"})
      <4>1. /\ dir' \in [Setups -> DirType]
            /\ Removed(s, written.stage, written.temp, written.backup, written.existed, {"temp"})
        <5> HIDE DEF written
        <5> QED BY <2>3, <2>00, LeavesTypes DEF Parts
      <4> QED BY <4>1, <2>00
    <3>3. Contents(file["env"], file["config"])
      BY <2>3 DEF Contents
    <3>4. history' = history
      BY <2>0
    <3>5. Apart(s)
      BY <3>1, <3>2, <3>4 DEF Moved, Removed, Apart, Same
    <3>6. Own(setup'[s], dir'[s], history'[s], litter'[s])
      BY <2>0, <2>3, <3>1, <3>2, <3>4, FileTypes DEF Own, Ended, Moved, Removed, Parts
    <3>7. Draws(s)
      BY <2>0, <3>2, <3>3, FileTypes DEF Own, Draws, Removed, Contents, NoFile, Placeholder
    <3>8. Tells(s)
      BY <2>0, <2>3, <3>1, <3>3, <3>4 DEF Own, Tells, Moved, Contents, WroteEnv, WroteConfig,
         NoFile
    <3>9. Rewinds(s)
      BY <2>0, <2>3, <3>1, <3>2, <3>3, <3>4 DEF Own, Rewinds, RolledBack, Rolls, Moved, Removed,
         Contents, Placeholder
    <3> QED BY <3>5, <3>6, <3>7, <3>8, <3>9 DEF Proper
  <2>4. CASE /\ Leaves(s, "failed", written, {"stage", "temp"})
            /\ setup[s].kind # "both"
            /\ file' = file
    <3>1. Moved(s, {"failed"})
      BY <2>4, GoesTypes DEF Moved, Ends, Leaves
    <3>2. Removed(s, dir[s].stage, dir[s].config, dir[s].backup, dir[s].existed, {"stage", "temp"})
      <4>1. /\ dir' \in [Setups -> DirType]
            /\ Removed(s, written.stage, written.temp, written.backup, written.existed,
                       {"stage", "temp"})
        <5> HIDE DEF written
        <5> QED BY <2>4, <2>00, LeavesTypes DEF Parts
      <4> QED BY <4>1, <2>00
    <3>3. Contents(file["env"], file["config"])
      BY <2>4 DEF Contents
    <3>4. history' = history
      BY <2>0
    <3>5. Apart(s)
      BY <3>1, <3>2, <3>4 DEF Moved, Removed, Apart, Same
    <3>6. Own(setup'[s], dir'[s], history'[s], litter'[s])
      BY <2>0, <2>4, <3>1, <3>2, <3>4, FileTypes DEF Own, Ended, Moved, Removed, Parts
    <3>7. Draws(s)
      BY <2>0, <3>2, <3>3, FileTypes DEF Own, Draws, Removed, Contents, NoFile, Placeholder
    <3>8. Tells(s)
      BY <2>0, <2>4, <3>1, <3>3, <3>4 DEF Own, Tells, Moved, Contents, WroteEnv, WroteConfig,
         NoFile
    <3>9. Rewinds(s)
      BY <2>0, <2>4, <3>1, <3>2, <3>3, <3>4 DEF Own, Rewinds, RolledBack, Rolls, Moved, Removed,
         Contents, Placeholder
    <3> QED BY <3>5, <3>6, <3>7, <3>8, <3>9 DEF Proper
  <2> QED BY <1>5, <2>1, <2>2, <2>3, <2>4 DEF RenameConfig, FailsToWrite
<1>6. CASE CleanUp(s)
  <2>0. /\ setup[s].pc = "clean" /\ Own(setup[s], dir[s], history[s], litter[s])
        /\ file' = file /\ history' = history
    BY <1>6 DEF CleanUp, At, Owns
  <2>1. CASE Leaves(s, "validate", dir[s], {"backup"})
    <3>1. Moved(s, {"validate"})
      BY <2>1, GoesTypes DEF Moved, Leaves
    <3>2. Removed(s, dir[s].stage, dir[s].temp, dir[s].backup, dir[s].existed, {"backup"})
      BY <2>1, LeavesTypes DEF Parts
    <3>3. Contents(file["env"], file["config"])
      BY <2>0 DEF Contents
    <3>4. history' = history
      BY <2>0
    <3>5. Apart(s)
      BY <3>1, <3>2, <3>4 DEF Moved, Removed, Apart, Same
    <3>6. Own(setup'[s], dir'[s], history'[s], litter'[s])
      BY <2>0, <2>1, <3>1, <3>2, <3>4, FileTypes DEF Own, Ended, Moved, Removed, Parts
    <3>7. Draws(s)
      BY <2>0, <3>2, <3>3, FileTypes DEF Own, Draws, Removed, Contents, NoFile, Placeholder
    <3>8. Tells(s)
      BY <2>0, <2>1, <3>1, <3>3, <3>4 DEF Own, Tells, Moved, Contents, WroteEnv, WroteConfig,
         NoFile
    <3>9. Rewinds(s)
      BY <2>0, <2>1, <3>1, <3>2, <3>3, <3>4 DEF Own, Rewinds, RolledBack, Rolls, Moved, Removed,
         Contents, Placeholder
    <3> QED BY <3>5, <3>6, <3>7, <3>8, <3>9 DEF Proper
  <2> QED BY <1>6, <2>1 DEF CleanUp
<1>7. CASE Validate(s)
  <2>0. /\ setup[s].pc = "validate" /\ Own(setup[s], dir[s], history[s], litter[s])
        /\ file' = file /\ history' = history
    BY <1>7 DEF Validate, At, Owns
  <2>1. CASE (Ends(s, "done") \/ Ends(s, "invalid"))
    <3>1. Moved(s, {"done", "invalid"})
      BY <2>1, GoesTypes DEF Moved, Ends, Leaves
    <3>2. Removed(s, dir[s].stage, dir[s].temp, dir[s].backup, dir[s].existed, {"stage", "temp"})
      BY <2>1, EndsTypes
    <3>3. Contents(file["env"], file["config"])
      BY <2>0 DEF Contents
    <3>4. history' = history
      BY <2>0
    <3>5. Apart(s)
      BY <3>1, <3>2, <3>4 DEF Moved, Removed, Apart, Same
    <3>6. Own(setup'[s], dir'[s], history'[s], litter'[s])
      BY <2>0, <2>1, <3>1, <3>2, <3>4, FileTypes DEF Own, Ended, Moved, Removed, Parts
    <3>7. Draws(s)
      BY <2>0, <3>2, <3>3, FileTypes DEF Own, Draws, Removed, Contents, NoFile, Placeholder
    <3>8. Tells(s)
      BY <2>0, <2>1, <3>1, <3>3, <3>4 DEF Own, Tells, Moved, Contents, WroteEnv, WroteConfig,
         NoFile
    <3>9. Rewinds(s)
      BY <2>0, <2>1, <3>1, <3>2, <3>3, <3>4 DEF Own, Rewinds, RolledBack, Rolls, Moved, Removed,
         Contents, Placeholder
    <3> QED BY <3>5, <3>6, <3>7, <3>8, <3>9 DEF Proper
  <2> QED BY <1>7, <2>1 DEF Validate
<1> QED BY <1>1, <1>2, <1>3, <1>4, <1>5, <1>6, <1>7 DEF Write

LEMMA RollbackProper ==
  ASSUME Inv, NEW s \in Setups, Rollback(s) PROVE Proper(s)
<1> USE DEF Inv, TypeInv, TypeOK
<1>1. CASE Restore(s)
  <2>0. setup[s].pc = "restore" /\ Own(setup[s], dir[s], history[s], litter[s])
    BY <1>1 DEF Restore, At, Owns
  <2>1. CASE /\ Swap(s)
            /\ Goes(s, "compare")
            /\ history' = [Disturbs(s) EXCEPT ![s].rolled = TRUE, ![s].calm = TRUE]
    <3>1. Moved(s, {"compare"})
      BY <2>1, GoesTypes DEF Moved, Goes
    <3>2. Filed(s, dir[s].stage, dir[s].temp, file["env"], dir[s].config, dir[s].existed)
      BY <2>1 DEF Filed, Goes, DirType, Swap
    <3>3. Contents(dir[s].backup, file["config"])
      BY <2>1 DEF Contents, Names, Swap
    <3>4. /\ history'[s].before = history[s].before
          /\ history'[s].rolled = TRUE /\ history'[s].calm = TRUE
          /\ \A r \in Setups : r # s => Same(history'[r], history[r]) /\ history'[r].calm = FALSE
      BY <2>1 DEF Disturbs, Same, HistoryType
    <3>5. Apart(s)
      BY <3>1, <3>2, <3>4 DEF Moved, Filed, Apart, Same
    <3>6. Own(setup'[s], dir'[s], history'[s], litter'[s])
      BY <2>0, <2>1, <3>1, <3>2, <3>4, FileTypes DEF Own, Ended, Moved, Filed
    <3>7. Draws(s)
      BY <2>0, <3>2, <3>3, FileTypes DEF Own, Draws, Filed, Contents, NoFile, Placeholder
    <3>8. Tells(s)
      BY <2>0, <2>1, <3>1, <3>3, <3>4 DEF Own, Tells, Moved, Contents, WroteEnv, WroteConfig,
         NoFile
    <3>9. Rewinds(s)
      BY <2>0, <2>1, <3>1, <3>2, <3>3, <3>4 DEF Own, Rewinds, RolledBack, Rolls, Moved, Filed,
         Contents, Placeholder
    <3> QED BY <3>5, <3>6, <3>7, <3>8, <3>9 DEF Proper
  <2>2. CASE Ends(s, "stuck") /\ UNCHANGED <<file, history>>
    <3>1. Moved(s, {"stuck"})
      BY <2>2, GoesTypes DEF Moved, Ends, Leaves
    <3>2. Removed(s, dir[s].stage, dir[s].temp, dir[s].backup, dir[s].existed, {"stage", "temp"})
      BY <2>2, EndsTypes
    <3>3. Contents(file["env"], file["config"])
      BY <2>2 DEF Contents
    <3>4. history' = history
      BY <2>2
    <3>5. Apart(s)
      BY <3>1, <3>2, <3>4 DEF Moved, Removed, Apart, Same
    <3>6. Own(setup'[s], dir'[s], history'[s], litter'[s])
      BY <2>0, <2>2, <3>1, <3>2, <3>4, FileTypes DEF Own, Ended, Moved, Removed, Parts
    <3>7. Draws(s)
      BY <2>0, <3>2, <3>3, FileTypes DEF Own, Draws, Removed, Contents, NoFile, Placeholder
    <3>8. Tells(s)
      BY <2>0, <2>2, <3>1, <3>3, <3>4 DEF Own, Tells, Moved, Contents, WroteEnv, WroteConfig,
         NoFile
    <3>9. Rewinds(s)
      BY <2>0, <2>2, <3>1, <3>2, <3>3, <3>4 DEF Own, Rewinds, RolledBack, Rolls, Moved, Removed,
         Contents, Placeholder
    <3> QED BY <3>5, <3>6, <3>7, <3>8, <3>9 DEF Proper
  <2> QED BY <1>1, <2>1, <2>2 DEF Restore
<1>2. CASE Compare(s)
  <2>0. /\ setup[s].pc = "compare" /\ Own(setup[s], dir[s], history[s], litter[s])
        /\ file' = file /\ history' = history /\ dir' = dir
    BY <1>2 DEF Compare, At, Owns
  <2>1. CASE Goes(s, "exchangeBack")
    <3>1. Moved(s, {"exchangeBack"})
      BY <2>1, GoesTypes DEF Moved, Goes
    <3>2. Filed(s, dir[s].stage, dir[s].temp, dir[s].backup, dir[s].config, dir[s].existed)
      BY <2>0, <2>1 DEF Filed, Goes
    <3>3. Contents(file["env"], file["config"])
      BY <2>0 DEF Contents
    <3>4. history' = history
      BY <2>0
    <3>5. Apart(s)
      BY <3>1, <3>2, <3>4 DEF Moved, Filed, Apart, Same
    <3>6. Own(setup'[s], dir'[s], history'[s], litter'[s])
      BY <2>0, <2>1, <3>1, <3>2, <3>4, FileTypes DEF Own, Ended, Moved, Filed
    <3>7. Draws(s)
      BY <2>0, <3>2, <3>3, FileTypes DEF Own, Draws, Filed, Contents, NoFile, Placeholder
    <3>8. Tells(s)
      BY <2>0, <2>1, <3>1, <3>3, <3>4 DEF Own, Tells, Moved, Contents, WroteEnv, WroteConfig,
         NoFile
    <3>9. Rewinds(s)
      BY <2>0, <2>1, <3>1, <3>2, <3>3, <3>4 DEF Own, Rewinds, RolledBack, Rolls, Moved, Filed,
         Contents, Placeholder
    <3> QED BY <3>5, <3>6, <3>7, <3>8, <3>9 DEF Proper
  <2>2. CASE dir[s].backup = dir[s].stage /\ dir[s].existed = TRUE /\ Goes(s, "drop")
    <3>1. Moved(s, {"drop"})
      BY <2>2, GoesTypes DEF Moved, Goes
    <3>2. Filed(s, dir[s].stage, dir[s].temp, dir[s].backup, dir[s].config, dir[s].existed)
      BY <2>0, <2>2 DEF Filed, Goes
    <3>3. Contents(file["env"], file["config"])
      BY <2>0 DEF Contents
    <3>4. history' = history
      BY <2>0
    <3>5. Apart(s)
      BY <3>1, <3>2, <3>4 DEF Moved, Filed, Apart, Same
    <3>6. Own(setup'[s], dir'[s], history'[s], litter'[s])
      BY <2>0, <2>2, <3>1, <3>2, <3>4, FileTypes DEF Own, Ended, Moved, Filed
    <3>7. Draws(s)
      BY <2>0, <3>2, <3>3, FileTypes DEF Own, Draws, Filed, Contents, NoFile, Placeholder
    <3>8. Tells(s)
      BY <2>0, <2>2, <3>1, <3>3, <3>4 DEF Own, Tells, Moved, Contents, WroteEnv, WroteConfig,
         NoFile
    <3>9. Rewinds(s)
      BY <2>0, <2>2, <3>1, <3>2, <3>3, <3>4 DEF Own, Rewinds, RolledBack, Rolls, Moved, Filed,
         Contents, Placeholder
    <3> QED BY <3>5, <3>6, <3>7, <3>8, <3>9 DEF Proper
  <2>3. CASE dir[s].backup = dir[s].stage /\ dir[s].existed = FALSE /\ Goes(s, "remove")
    <3>1. Moved(s, {"remove"})
      BY <2>3, GoesTypes DEF Moved, Goes
    <3>2. Filed(s, dir[s].stage, dir[s].temp, dir[s].backup, dir[s].config, dir[s].existed)
      BY <2>0, <2>3 DEF Filed, Goes
    <3>3. Contents(file["env"], file["config"])
      BY <2>0 DEF Contents
    <3>4. history' = history
      BY <2>0
    <3>5. Apart(s)
      BY <3>1, <3>2, <3>4 DEF Moved, Filed, Apart, Same
    <3>6. Own(setup'[s], dir'[s], history'[s], litter'[s])
      BY <2>0, <2>3, <3>1, <3>2, <3>4, FileTypes DEF Own, Ended, Moved, Filed
    <3>7. Draws(s)
      BY <2>0, <3>2, <3>3, FileTypes DEF Own, Draws, Filed, Contents, NoFile, Placeholder
    <3>8. Tells(s)
      BY <2>0, <2>3, <3>1, <3>3, <3>4 DEF Own, Tells, Moved, Contents, WroteEnv, WroteConfig,
         NoFile
    <3>9. Rewinds(s)
      BY <2>0, <2>3, <3>1, <3>2, <3>3, <3>4 DEF Own, Rewinds, RolledBack, Rolls, Moved, Filed,
         Contents, Placeholder
    <3> QED BY <3>5, <3>6, <3>7, <3>8, <3>9 DEF Proper
  <2> QED BY <1>2, <2>1, <2>2, <2>3 DEF Compare, DirType
<1>3. CASE ExchangeBack(s)
  <2> DEFINE back == [dir[s] EXCEPT !.backup = file["env"]]
  <2>00. /\ back \in DirType
         /\ back.stage = dir[s].stage /\ back.existed = dir[s].existed
         /\ back.temp = dir[s].temp
         /\ back.backup = file["env"]
    BY DraftTypes, SingleTypes, FileTypes, FileRead DEF DirType
  <2>0. setup[s].pc = "exchangeBack" /\ Own(setup[s], dir[s], history[s], litter[s])
    BY <1>3 DEF ExchangeBack, At, Owns
  <2>1. CASE /\ Leaves(s, "refused", back, {"stage", "temp"})
            /\ file' = [file EXCEPT !["env"] = dir[s].backup]
            /\ history' = Disturbs(s)
    <3>1. Moved(s, {"refused"})
      BY <2>1, GoesTypes DEF Moved, Leaves
    <3>2. Removed(s, dir[s].stage, dir[s].temp, file["env"], dir[s].existed, {"stage", "temp"})
      <4>1. /\ dir' \in [Setups -> DirType]
            /\ Removed(s, back.stage, back.temp, back.backup, back.existed, {"stage", "temp"})
        <5> HIDE DEF back
        <5> QED BY <2>1, <2>00, LeavesTypes DEF Parts
      <4> QED BY <4>1, <2>00
    <3>3. Contents(dir[s].backup, file["config"])
      BY <2>1 DEF Contents, Names
    <3>4. /\ history'[s] = history[s]
          /\ \A r \in Setups : r # s => Same(history'[r], history[r]) /\ history'[r].calm = FALSE
      BY <2>1 DEF Disturbs, Same, HistoryType
    <3>5. Apart(s)
      BY <3>1, <3>2, <3>4 DEF Moved, Removed, Apart, Same
    <3>6. Own(setup'[s], dir'[s], history'[s], litter'[s])
      BY <2>0, <2>1, <3>1, <3>2, <3>4, FileTypes DEF Own, Ended, Moved, Removed, Parts
    <3>7. Draws(s)
      BY <2>0, <3>2, <3>3, FileTypes DEF Own, Draws, Removed, Contents, NoFile, Placeholder
    <3>8. Tells(s)
      BY <2>0, <2>1, <3>1, <3>3, <3>4 DEF Own, Tells, Moved, Contents, WroteEnv, WroteConfig,
         NoFile
    <3>9. Rewinds(s)
      BY <2>0, <2>1, <3>1, <3>2, <3>3, <3>4 DEF Own, Rewinds, RolledBack, Rolls, Moved, Removed,
         Contents, Placeholder
    <3> QED BY <3>5, <3>6, <3>7, <3>8, <3>9 DEF Proper
  <2>2. CASE Ends(s, "stuck") /\ UNCHANGED <<file, history>>
    <3>1. Moved(s, {"stuck"})
      BY <2>2, GoesTypes DEF Moved, Ends, Leaves
    <3>2. Removed(s, dir[s].stage, dir[s].temp, dir[s].backup, dir[s].existed, {"stage", "temp"})
      BY <2>2, EndsTypes
    <3>3. Contents(file["env"], file["config"])
      BY <2>2 DEF Contents
    <3>4. history' = history
      BY <2>2
    <3>5. Apart(s)
      BY <3>1, <3>2, <3>4 DEF Moved, Removed, Apart, Same
    <3>6. Own(setup'[s], dir'[s], history'[s], litter'[s])
      BY <2>0, <2>2, <3>1, <3>2, <3>4, FileTypes DEF Own, Ended, Moved, Removed, Parts
    <3>7. Draws(s)
      BY <2>0, <3>2, <3>3, FileTypes DEF Own, Draws, Removed, Contents, NoFile, Placeholder
    <3>8. Tells(s)
      BY <2>0, <2>2, <3>1, <3>3, <3>4 DEF Own, Tells, Moved, Contents, WroteEnv, WroteConfig,
         NoFile
    <3>9. Rewinds(s)
      BY <2>0, <2>2, <3>1, <3>2, <3>3, <3>4 DEF Own, Rewinds, RolledBack, Rolls, Moved, Removed,
         Contents, Placeholder
    <3> QED BY <3>5, <3>6, <3>7, <3>8, <3>9 DEF Proper
  <2> QED BY <1>3, <2>1, <2>2 DEF ExchangeBack
<1>4. CASE RemovePlaceholder(s)
  <2>0. setup[s].pc = "remove" /\ Own(setup[s], dir[s], history[s], litter[s])
    BY <1>4 DEF RemovePlaceholder, At, Owns
  <2>1. CASE /\ Goes(s, "drop")
            /\ dir' = dir
            /\ file' = [file EXCEPT !["env"] = NoFile]
            /\ history' = Disturbs(s)
    <3>1. Moved(s, {"drop"})
      BY <2>1, GoesTypes DEF Moved, Goes
    <3>2. Filed(s, dir[s].stage, dir[s].temp, dir[s].backup, dir[s].config, dir[s].existed)
      BY <2>1 DEF Filed, Goes
    <3>3. Contents(NoFile, file["config"])
      BY <2>1 DEF Contents, Names
    <3>4. /\ history'[s] = history[s]
          /\ \A r \in Setups : r # s => Same(history'[r], history[r]) /\ history'[r].calm = FALSE
      BY <2>1 DEF Disturbs, Same, HistoryType
    <3>5. Apart(s)
      BY <3>1, <3>2, <3>4 DEF Moved, Filed, Apart, Same
    <3>6. Own(setup'[s], dir'[s], history'[s], litter'[s])
      BY <2>0, <2>1, <3>1, <3>2, <3>4, FileTypes DEF Own, Ended, Moved, Filed
    <3>7. Draws(s)
      BY <2>0, <3>2, <3>3, FileTypes DEF Own, Draws, Filed, Contents, NoFile, Placeholder
    <3>8. Tells(s)
      BY <2>0, <2>1, <3>1, <3>3, <3>4 DEF Own, Tells, Moved, Contents, WroteEnv, WroteConfig,
         NoFile
    <3>9. Rewinds(s)
      BY <2>0, <2>1, <3>1, <3>2, <3>3, <3>4 DEF Own, Rewinds, RolledBack, Rolls, Moved, Filed,
         Contents, Placeholder
    <3> QED BY <3>5, <3>6, <3>7, <3>8, <3>9 DEF Proper
  <2>2. CASE Ends(s, "stuck") /\ UNCHANGED <<file, history>>
    <3>1. Moved(s, {"stuck"})
      BY <2>2, GoesTypes DEF Moved, Ends, Leaves
    <3>2. Removed(s, dir[s].stage, dir[s].temp, dir[s].backup, dir[s].existed, {"stage", "temp"})
      BY <2>2, EndsTypes
    <3>3. Contents(file["env"], file["config"])
      BY <2>2 DEF Contents
    <3>4. history' = history
      BY <2>2
    <3>5. Apart(s)
      BY <3>1, <3>2, <3>4 DEF Moved, Removed, Apart, Same
    <3>6. Own(setup'[s], dir'[s], history'[s], litter'[s])
      BY <2>0, <2>2, <3>1, <3>2, <3>4, FileTypes DEF Own, Ended, Moved, Removed, Parts
    <3>7. Draws(s)
      BY <2>0, <3>2, <3>3, FileTypes DEF Own, Draws, Removed, Contents, NoFile, Placeholder
    <3>8. Tells(s)
      BY <2>0, <2>2, <3>1, <3>3, <3>4 DEF Own, Tells, Moved, Contents, WroteEnv, WroteConfig,
         NoFile
    <3>9. Rewinds(s)
      BY <2>0, <2>2, <3>1, <3>2, <3>3, <3>4 DEF Own, Rewinds, RolledBack, Rolls, Moved, Removed,
         Contents, Placeholder
    <3> QED BY <3>5, <3>6, <3>7, <3>8, <3>9 DEF Proper
  <2> QED BY <1>4, <2>1, <2>2 DEF RemovePlaceholder
<1>5. CASE Drop(s)
  <2> DEFINE dropped == [dir[s] EXCEPT !.backup = NoFile]
  <2>00. /\ dropped \in DirType
         /\ dropped.stage = dir[s].stage /\ dropped.existed = dir[s].existed
         /\ dropped.temp = dir[s].temp
         /\ dropped.backup = NoFile
    BY DraftTypes, SingleTypes, FileTypes, FileRead DEF DirType
  <2>0. /\ setup[s].pc = "drop" /\ Own(setup[s], dir[s], history[s], litter[s])
        /\ file' = file /\ history' = history
    BY <1>5 DEF Drop, At, Owns
  <2>1. CASE Leaves(s, "failed", dropped, {"stage", "temp"})
    <3>1. Moved(s, {"failed"})
      BY <2>1, GoesTypes DEF Moved, Leaves
    <3>2. Removed(s, dir[s].stage, dir[s].temp, NoFile, dir[s].existed, {"stage", "temp"})
      <4>1. /\ dir' \in [Setups -> DirType]
            /\ Removed(s, dropped.stage, dropped.temp, dropped.backup, dropped.existed,
                       {"stage", "temp"})
        <5> HIDE DEF dropped
        <5> QED BY <2>1, <2>00, LeavesTypes DEF Parts
      <4> QED BY <4>1, <2>00
    <3>3. Contents(file["env"], file["config"])
      BY <2>0 DEF Contents
    <3>4. history' = history
      BY <2>0
    <3>5. Apart(s)
      BY <3>1, <3>2, <3>4 DEF Moved, Removed, Apart, Same
    <3>6. Own(setup'[s], dir'[s], history'[s], litter'[s])
      BY <2>0, <2>1, <3>1, <3>2, <3>4, FileTypes DEF Own, Ended, Moved, Removed, Parts
    <3>7. Draws(s)
      BY <2>0, <3>2, <3>3, FileTypes DEF Own, Draws, Removed, Contents, NoFile, Placeholder
    <3>8. Tells(s)
      BY <2>0, <2>1, <3>1, <3>3, <3>4 DEF Own, Tells, Moved, Contents, WroteEnv, WroteConfig,
         NoFile
    <3>9. Rewinds(s)
      BY <2>0, <2>1, <3>1, <3>2, <3>3, <3>4 DEF Own, Rewinds, RolledBack, Rolls, Moved, Removed,
         Contents, Placeholder
    <3> QED BY <3>5, <3>6, <3>7, <3>8, <3>9 DEF Proper
  <2>2. CASE Ends(s, "stuck")
    <3>1. Moved(s, {"stuck"})
      BY <2>2, GoesTypes DEF Moved, Ends, Leaves
    <3>2. Removed(s, dir[s].stage, dir[s].temp, dir[s].backup, dir[s].existed, {"stage", "temp"})
      BY <2>2, EndsTypes
    <3>3. Contents(file["env"], file["config"])
      BY <2>0 DEF Contents
    <3>4. history' = history
      BY <2>0
    <3>5. Apart(s)
      BY <3>1, <3>2, <3>4 DEF Moved, Removed, Apart, Same
    <3>6. Own(setup'[s], dir'[s], history'[s], litter'[s])
      BY <2>0, <2>2, <3>1, <3>2, <3>4, FileTypes DEF Own, Ended, Moved, Removed, Parts
    <3>7. Draws(s)
      BY <2>0, <3>2, <3>3, FileTypes DEF Own, Draws, Removed, Contents, NoFile, Placeholder
    <3>8. Tells(s)
      BY <2>0, <2>2, <3>1, <3>3, <3>4 DEF Own, Tells, Moved, Contents, WroteEnv, WroteConfig,
         NoFile
    <3>9. Rewinds(s)
      BY <2>0, <2>2, <3>1, <3>2, <3>3, <3>4 DEF Own, Rewinds, RolledBack, Rolls, Moved, Removed,
         Contents, Placeholder
    <3> QED BY <3>5, <3>6, <3>7, <3>8, <3>9 DEF Proper
  <2> QED BY <1>5, <2>1, <2>2 DEF Drop
<1> QED BY <1>1, <1>2, <1>3, <1>4, <1>5 DEF Rollback

\* A proper step of one setup is proper for the others, too.
LEMMA ProperKeeps ==
  ASSUME Inv, NEW s \in Setups, Proper(s), UNCHANGED command
  PROVE  Owns' /\ Drafted' /\ Spread' /\ RolledBack'
<1> USE DEF Inv, TypeInv, TypeOK, Proper
<1>1. Owns'
  <2> SUFFICES ASSUME NEW r \in Setups, r # s PROVE Own(setup'[r], dir'[r], history'[r], litter'[r])
    BY DEF Owns
  <2> QED BY DEF Owns, Own, Apart, Same
<1>2. Drafted'
  BY DEF Drafted
<1>3. Spread'
  <2> SUFFICES ASSUME NEW r \in Setups
               PROVE  /\ EnvSays(r)' => WroteEnv(setup'[r], history'[r])
                      /\ ConfigSays(r)' => WroteConfig(setup'[r])
    BY DEF Spread
  <2>1. r \notin {"token", "no file"}
    BY ChangesAssumption
  <2>2. CASE r = s
    <3>1. EnvSays(s)' => EnvSays(s) \/ WroteEnv(setup'[s], history'[s])
      BY DEF EnvSays, Apart, Tells
    <3>2. ConfigSays(s)' => ConfigSays(s) \/ WroteConfig(setup'[s])
      BY DEF ConfigSays, Apart, Tells
    <3> QED BY <2>2, <3>1, <3>2 DEF Spread, Tells
  <2>3. CASE r # s
    <3>1. EnvSays(r)' => EnvSays(r)
      BY <2>1, <2>3 DEF EnvSays, Apart, Draws
    <3>2. ConfigSays(r)' => ConfigSays(r)
      BY <2>1, <2>3 DEF ConfigSays, Apart, Draws
    <3>3. setup'[r] = setup[r] /\ history'[r].rolled = history[r].rolled
      BY <2>3 DEF Apart, Same
    <3> QED BY <3>1, <3>2, <3>3 DEF Spread, WroteEnv, WroteConfig
  <2> QED BY <2>2, <2>3
<1>4. RolledBack'
  <2> SUFFICES ASSUME NEW r \in Setups, history'[r].rolled = TRUE, history'[r].calm = TRUE
               PROVE  Rolls(file'["env"], setup'[r], dir'[r], history'[r])
    BY DEF RolledBack
  <2>1. CASE r = s
    BY <2>1 DEF Rewinds
  <2>2. CASE r # s
    <3>1. file'["env"] = file["env"]
      BY <2>2 DEF Rewinds
    <3> QED BY <2>2, <3>1 DEF RolledBack, Rolls, Apart, Same
  <2> QED BY <2>1, <2>2
<1> QED BY <1>1, <1>2, <1>3, <1>4

LEMMA BeginProper ==
  ASSUME Inv, NEW s \in Setups, Start(s) \/ Kill(s) PROVE Proper(s)
<1> USE DEF Inv, TypeInv, TypeOK
<1>0. /\ file' = file /\ dir' = dir /\ litter' = litter /\ history' = history
      /\ Own(setup[s], dir[s], history[s], litter[s])
  BY DEF Start, Begin, Kill, Owns, Goes
<1>1. \A r \in Setups : r # s => setup'[r] = setup[r]
  BY GoesTypes DEF Start, Begin, Kill, Goes
<1>2. \/ setup[s].pc = "idle" /\ setup'[s].pc = "confirm"
      \/ setup[s].pc \notin Ended /\ setup'[s].pc = "killed" /\ setup'[s].kind = setup[s].kind
  BY GoesTypes DEF Start, Begin, Kill, Goes, At
<1>3. Apart(s) /\ Draws(s)
  BY <1>0, <1>1 DEF Apart, Draws, Same
<1>4. Own(setup'[s], dir'[s], history'[s], litter'[s])
  BY <1>0, <1>2 DEF Own, Ended
<1>5. Tells(s)
  BY <1>0, <1>2 DEF Tells, WroteEnv, WroteConfig, Ended
<1>6. Rewinds(s)
  BY <1>0, <1>2 DEF Rewinds, RolledBack, Rolls, Own
<1> QED BY <1>3, <1>4, <1>5, <1>6 DEF Proper

\* What a command writes it has read, or it is its own change.
Wrote(c) ==
  /\ \A d \in Commands : d # c => command'[d] = command[d]
  /\ \A r \in Setups : \A name \in Names :
       /\ r \in file'[name] => \/ r \in file[name]
                               \/ command[c].name = name /\ r \in command[c].temp
       /\ command'[c].name = name /\ r \in command'[c].temp =>
            \/ r \in file[name]
            \/ command[c].name = name /\ r \in command[c].temp
  /\ \A r \in Setups : Same(history'[r], history[r])
  /\ file'["env"] = file["env"] \/ \A r \in Setups : history'[r].calm = FALSE

LEMMA ServeWrote ==
  ASSUME Inv, NEW c \in Commands, Serve(c) PROVE UNCHANGED <<setup, dir, litter>> /\ Wrote(c) /\ Drafted'
<1> USE DEF Inv, TypeInv, TypeOK
<1>0. \A r \in Setups : r # c /\ r \notin {"no file", "token", "broken"}
  BY ChangesAssumption
<1>1. ASSUME NEW name \in Names, NEW init \in BOOLEAN, Call(c, name, init)
      PROVE  UNCHANGED <<setup, dir, litter>> /\ Wrote(c) /\ Drafted'
  BY <1>0, <1>1 DEF Call, Quiet, Wrote, Drafted, Same, NoFile, CommandType
<1>2. CASE CheckAbsent(c)
  <2>1. PICK pc : Steps(c, pc)
    BY <1>2 DEF CheckAbsent
  <2>2. command'[c].name = command[c].name /\ command'[c].temp = command[c].temp
    BY <2>1 DEF Steps, CommandType
  <2>3. \A d \in Commands : d # c => command'[d] = command[d]
    BY <2>1 DEF Steps
  <2>4. command'[c].pc \in {"write", "failed"} /\ command'[c].init = command[c].init
    BY <1>2 DEF CheckAbsent, Steps, CommandType
  <2>5. command[c].pc = "check" /\ UNCHANGED <<file, setup, dir, litter, history>>
    BY <1>2 DEF CheckAbsent, Quiet
  <2>6. Drafted'
    BY <2>3, <2>4, <2>5 DEF Drafted
  <2> QED BY <2>2, <2>3, <2>5, <2>6 DEF Wrote, Same
<1>3. CASE Read(c)
  <2> DEFINE content == IF Exists(command[c].name) THEN file[command[c].name] ELSE {}
  <2>0. command[c].pc = "read" /\ UNCHANGED <<file, setup, dir, litter, history>>
    BY <1>3 DEF Read, Quiet
  <2>1. CASE Steps(c, "failed")
    <3>1. /\ command'[c].pc = "failed"
          /\ command'[c].name = command[c].name /\ command'[c].temp = command[c].temp
          /\ \A d \in Commands : d # c => command'[d] = command[d]
      BY <2>1 DEF Steps, CommandType
    <3>2. Drafted'
      BY <3>1 DEF Drafted
    <3> QED BY <2>0, <3>1, <3>2 DEF Wrote, Same
  <2>2. CASE command' = [command EXCEPT ![c].pc = "write", ![c].temp = content]
    <3>1. /\ command'[c].pc = "write"
          /\ command'[c].name = command[c].name /\ command'[c].temp = content
          /\ \A d \in Commands : d # c => command'[d] = command[d]
      <4> HIDE DEF content
      <4> QED BY <2>2 DEF CommandType
    <3>2. content # NoFile
      BY DEF Exists, NoFile
    <3>3. Drafted'
      BY <3>1, <3>2 DEF Drafted
    <3>4. \A r \in Setups : r \in content => r \in file[command[c].name]
      OBVIOUS
    <3> QED BY <2>0, <3>1, <3>3, <3>4 DEF Wrote, Same
  <2> QED BY <1>3, <2>1, <2>2 DEF Read
<1>4. CASE WriteTemp(c)
  <2>0. UNCHANGED <<file, setup, dir, litter, history>>
    BY <1>4 DEF WriteTemp, Quiet
  <2>1. PICK pc \in {"rename", "failed"},
             content \in {{c} \cup (IF command[c].init THEN Template ELSE command[c].temp), NoFile} :
          command' = [command EXCEPT ![c].pc = pc, ![c].temp = content]
    BY <1>4 DEF WriteTemp
  <2>2. /\ command'[c].pc # "write" /\ command'[c].pc # "check"
        /\ command'[c].name = command[c].name /\ command'[c].temp = content
        /\ \A d \in Commands : d # c => command'[d] = command[d]
    BY <2>1 DEF CommandType
  <2>3. \A r \in Setups : r \in content => r \in command[c].temp
    BY <1>0 DEF Template, NoFile
  <2>4. Drafted'
    BY <2>2 DEF Drafted
  <2> QED BY <2>0, <2>2, <2>3, <2>4 DEF Wrote, Same
<1>5. CASE RenameTemp(c)
  <2>0. UNCHANGED <<setup, dir, litter>>
    BY <1>5 DEF RenameTemp, Quiet
  <2>1. command' = [command EXCEPT ![c].pc = "done", ![c].temp = NoFile]
    BY <1>5 DEF RenameTemp
  <2>2. /\ command'[c].pc = "done" /\ command'[c].temp = NoFile
        /\ \A d \in Commands : d # c => command'[d] = command[d]
    BY <2>1 DEF CommandType
  <2>3. Drafted'
    BY <2>2 DEF Drafted
  <2>4. ASSUME NEW name \in Names
        PROVE  \/ file'[name] = file[name]
               \/ command[c].name = name /\ file'[name] = command[c].temp
    <3>1. file' = [file EXCEPT ![command[c].name] = command[c].temp]
      BY <1>5 DEF RenameTemp
    <3> QED BY <3>1
  <2>5. CASE command[c].name = "env"
    <3>1. history' = Disturbs(c)
      BY <1>5, <2>5 DEF RenameTemp
    <3>2. \A r \in Setups : Same(history'[r], history[r]) /\ history'[r].calm = FALSE
      BY <1>0, <3>1 DEF Same, Disturbs, HistoryType
    <3> QED BY <1>0, <2>0, <2>2, <2>4, <2>3, <3>2 DEF Wrote, NoFile
  <2>6. CASE command[c].name # "env"
    <3>1. history' = history /\ file'["env"] = file["env"]
      BY <1>5, <2>6 DEF RenameTemp, Names
    <3> QED BY <1>0, <2>0, <2>2, <2>4, <2>3, <3>1 DEF Wrote, Same, NoFile
  <2> QED BY <2>5, <2>6
<1>6. CASE KillCommand(c)
  BY <1>6 DEF KillCommand, Steps, Quiet, Wrote, Drafted, Same, CommandType
<1>7. CASE RenameFails(c)
  <2>0. UNCHANGED <<file, setup, dir, litter, history>>
    BY <1>7 DEF RenameFails, Quiet
  <2>1. command' = [command EXCEPT ![c].pc = "failed", ![c].temp = NoFile]
    BY <1>7 DEF RenameFails
  <2>2. /\ command'[c].pc = "failed"
        /\ command'[c].name = command[c].name /\ command'[c].temp = NoFile
        /\ \A d \in Commands : d # c => command'[d] = command[d]
    BY <2>1 DEF CommandType
  <2>3. \A r \in Setups : r \notin NoFile
    BY <1>0 DEF NoFile
  <2>4. Drafted'
    BY <2>2 DEF Drafted
  <2> QED BY <2>0, <2>2, <2>3, <2>4 DEF Wrote, Same
<1> QED BY <1>1, <1>2, <1>3, <1>4, <1>5, <1>6, <1>7 DEF Serve

LEMMA WroteKeeps ==
  ASSUME Inv, NEW c \in Commands, UNCHANGED <<setup, dir, litter>>, Wrote(c)
  PROVE  Owns' /\ Spread' /\ RolledBack'
<1> USE DEF Inv, Wrote
<1>1. Owns'
  BY DEF TypeInv, Owns, Own, Same
<1>2. Spread'
  <2> SUFFICES ASSUME NEW r \in Setups
               PROVE  /\ EnvSays(r)' => WroteEnv(setup'[r], history'[r])
                      /\ ConfigSays(r)' => WroteConfig(setup'[r])
    BY DEF Spread
  <2>1. EnvSays(r)' => EnvSays(r)
    BY DEF EnvSays, Names
  <2>2. ConfigSays(r)' => ConfigSays(r)
    BY DEF ConfigSays, Names
  <2> QED BY <2>1, <2>2 DEF Spread, WroteEnv, WroteConfig, Same
<1>3. RolledBack'
  BY DEF RolledBack, Rolls, Same
<1> QED BY <1>1, <1>2, <1>3

LEMMA InitInv ==
  ASSUME Init PROVE Inv
<1>1. TypeOK
  <2>1. /\ {"original"} \in Files /\ {"original", "token"} \in Files /\ {"broken"} \in Files
    BY FileTypes DEF Changes
  <2>2. file \in [Names -> Files]
    <3>1. /\ file["env"] \in Files /\ file["config"] \in Files
      BY <2>1, FileTypes DEF Init
    <3> QED BY <3>1 DEF Init, Names
  <2>3. setup \in [Setups -> SetupType]
    BY DEF Init, SetupType
  <2>4. dir \in [Setups -> DirType]
    BY FileTypes DEF Init, DirType
  <2>5. command \in [Commands -> CommandType]
    BY FileTypes DEF Init, CommandType, Names
  <2>6. history \in [Setups -> HistoryType]
    BY FileTypes DEF Init, HistoryType
  <2>7. faults \in 0..MaxFaults /\ kills \in 0..MaxKills
    BY Bounds DEF Init
  <2>8. litter \in [Setups -> SUBSET Parts]
    BY DEF Init
  <2> QED BY <2>2, <2>3, <2>4, <2>5, <2>6, <2>7, <2>8 DEF TypeOK
<1>2. Owns
  BY DEF Init, Owns, Own, Ended
<1>3. Drafted
  BY DEF Init, Drafted
<1>4. Spread
  <2>1. \A s \in Setups : s \notin {"original", "token", "broken", "no file"}
    BY ChangesAssumption
  <2>2. \A s \in Setups : ~EnvSays(s) /\ ~ConfigSays(s)
    BY <2>1 DEF Init, EnvSays, ConfigSays, NoFile
  <2> QED BY <2>2 DEF Spread
<1>5. RolledBack
  BY DEF Init, RolledBack
<1> QED BY <1>1, <1>2, <1>3, <1>4, <1>5 DEF Inv, TypeInv

LEMMA NextInv ==
  ASSUME Inv, [Next]_vars PROVE Inv'
<1>1. ASSUME NEW s \in Setups, Start(s) \/ Ask(s) \/ Write(s) \/ Rollback(s) \/ Kill(s)
      PROVE  Inv'
  <2>1. TypeOK'
    BY <1>1, BeginTypes, AskTypes, WriteTypes, RollbackTypes DEF Inv
  <2>2. Proper(s)
    BY <1>1, BeginProper, AskProper, WriteProper, RollbackProper
  <2>3. UNCHANGED command
    BY <1>1 DEF Start, Begin, Ask, ConfirmOverwrite, CreateStage, Answer, Collect, Review, Write,
                PrepareRollback, Commit, RenameEnv, WriteConfig, RenameConfig, CleanUp, Validate,
                Rollback, Restore, Compare, ExchangeBack, RemovePlaceholder, Drop, Kill, Outside
  <2> QED BY <2>1, <2>2, <2>3, ProperKeeps DEF Inv, TypeInv
<1>2. ASSUME NEW c \in Commands, Serve(c) PROVE Inv'
  <2>1. TypeOK'
    BY <1>2, ServeTypes DEF Inv
  <2> QED BY <1>2, <2>1, ServeWrote, WroteKeeps DEF Inv, TypeInv
<1>3. CASE UNCHANGED vars
  BY <1>3 DEF vars, Inv, TypeInv, TypeOK, Owns, Drafted, Spread, RolledBack, EnvSays, ConfigSays
<1> QED BY <1>1, <1>2, <1>3, NextSteps

LEMMA Invariant == Spec => []Inv
<1>1. Init => Inv
  BY InitInv
<1>2. Inv /\ [Next]_vars => Inv'
  BY NextInv
<1> QED BY <1>1, <1>2, PTL DEF Spec

\* The variables keep their types: whatever a setup, a rollback or a command writes
\* is a file with some of the changes.
THEOREM TypeCorrect == Spec => []TypeOK
<1>1. Inv => TypeOK
  BY DEF Inv, TypeInv
<1> QED BY <1>1, Invariant, PTL

\* A setup that has ended, and was not killed, leaves none of its files, save the
\* backup of a rollback that was refused or failed, and what it could not remove:
\* each failure path sees to the staging directory, the temporary file and the
\* backup that were there. That it is told of a file that stays, nothing says.
THEOREM CleansUp == Spec => []LeavesNothing
<1>1. ASSUME Inv PROVE LeavesNothing
  <2> SUFFICES ASSUME NEW s \in Setups, setup[s].pc \in Ended \ {"killed"},
                      NEW part \in Parts, dir[s][part] # NoFile
               PROVE  \/ part \in litter[s]
                      \/ part = "backup" /\ setup[s].pc \in {"refused", "stuck"}
    BY DEF LeavesNothing
  <2>1. Own(setup[s], dir[s], history[s], litter[s])
    BY <1>1 DEF Inv, TypeInv, Owns
  <2>2. CASE part = "stage"
    BY <2>1, <2>2 DEF Own
  <2>3. CASE part = "temp"
    BY <2>1, <2>3 DEF Own, Ended
  <2>4. CASE part = "backup"
    BY <2>1, <2>4 DEF Own, Ended
  <2> QED BY <2>2, <2>3, <2>4 DEF Parts
<1> QED BY <1>1, Invariant, PTL

\* A setup that has ended as failed - not as refused, stuck or invalid - has its change
\* in neither file: not before it has renamed, and after a rollback that took its
\* course .env is what it was, provided that nobody has written to it meanwhile.
THEOREM FailsWhole == Spec => []AllOrNothing
<1>1. ASSUME Inv PROVE AllOrNothing
  <2> SUFFICES ASSUME NEW s \in Setups, setup[s].pc = "failed"
               PROVE  /\ s \notin file["config"]
                      /\ ~history[s].rolled => s \notin file["env"]
                      /\ history[s].rolled /\ history[s].calm => file["env"] = history[s].before
    BY DEF AllOrNothing, At
  <2>1. history[s].rolled \in BOOLEAN /\ history[s].calm \in BOOLEAN
    BY <1>1 DEF Inv, TypeInv, TypeOK, HistoryType
  <2>2. s \notin file["config"]
    BY <1>1 DEF Inv, Spread, ConfigSays, WroteConfig
  <2>3. s \in file["env"] => history[s].rolled = TRUE
    BY <1>1 DEF Inv, Spread, EnvSays, WroteEnv
  <2>4. history[s].rolled = TRUE /\ history[s].calm = TRUE => file["env"] = history[s].before
    BY <1>1 DEF Inv, RolledBack, Rolls
  <2> QED BY <2>1, <2>2, <2>3, <2>4
<1> QED BY <1>1, Invariant, PTL

\* The exchanges, the comparison and the dropping of the backup lose no change of
\* anybody else: what setup drops is what it has itself written. The removal of a
\* placeholder is not among these steps: it takes away whatever has come into its place.
THEOREM KeepsOthers == Spec => NothingLost
<1> DEFINE Kept(s) ==
      (file["env"] \cup dir[s].backup) \ (dir[s].stage \cup NoFile)
        \subseteq file'["env"] \cup dir'[s].backup
<1>1. ASSUME Inv, [Next]_vars, NEW s \in Setups,
             setup[s].pc \in {"restore", "compare", "exchangeBack", "drop"},
             setup'[s].pc # setup[s].pc
      PROVE  Kept(s)
  <2>1. ~UNCHANGED vars
    BY <1>1 DEF vars
  <2>2. ~\E c \in Commands : Serve(c)
    BY <1>1, ServeWrote
  <2>3. \A r \in Setups : r # s => ~(Start(r) \/ Ask(r) \/ Write(r) \/ Rollback(r) \/ Kill(r))
    BY <1>1, BeginProper, AskProper, WriteProper, RollbackProper DEF Proper, Apart
  <2>4. ~Start(s) /\ ~Ask(s) /\ ~Write(s)
    BY <1>1 DEF Start, Begin, Ask, ConfirmOverwrite, CreateStage, Answer, Collect, Review, Write,
                PrepareRollback, Commit, RenameEnv, WriteConfig, RenameConfig, CleanUp, Validate, At
  <2>5. CASE Kill(s)
    BY <2>5 DEF Kill
  <2>6. CASE Rollback(s)
    <3>1. CASE Restore(s)
      BY <1>1, <3>1, EndsTypes DEF Removed, Restore, Swap, Inv, TypeInv, TypeOK, DirType, Names
    <3>2. CASE Compare(s)
      BY <3>2 DEF Compare
    <3>3. CASE ExchangeBack(s)
      <4> USE DEF Inv, TypeInv, TypeOK
      <4> DEFINE back == [dir[s] EXCEPT !.backup = file["env"]]
      <4>1. /\ back \in DirType /\ back.backup = file["env"]
            /\ {"stage", "temp"} \in SUBSET Parts
        BY <1>1, DraftTypes, FileRead DEF DirType, Parts
      <4>2. CASE /\ Leaves(s, "refused", back, {"stage", "temp"})
                /\ file' = [file EXCEPT !["env"] = dir[s].backup]
        <5>1. Removed(s, back.stage, back.temp, back.backup, back.existed, {"stage", "temp"})
          <6> HIDE DEF back
          <6> QED BY <1>1, <4>1, <4>2, LeavesTypes
        <5>2. dir'[s].backup = file["env"] /\ file'["env"] = dir[s].backup
          BY <1>1, <4>1, <4>2, <5>1 DEF Removed, Names
        <5> QED BY <5>2
      <4>3. CASE Ends(s, "stuck") /\ file' = file
        BY <1>1, <4>3, EndsTypes DEF Removed
      <4> QED BY <3>3, <4>2, <4>3 DEF ExchangeBack
    <3>4. CASE RemovePlaceholder(s)
      BY <1>1, <3>4 DEF RemovePlaceholder, At
    <3>5. CASE Drop(s)
      BY <1>1, <3>5, EndsTypes, LeavesTypes, FileTypes
         DEF Drop, At, Inv, TypeInv, TypeOK, Owns, Own
    <3> QED BY <2>6, <3>1, <3>2, <3>3, <3>4, <3>5 DEF Rollback
  <2> QED BY <1>1, <2>1, <2>2, <2>3, <2>4, <2>5, <2>6, NextSteps
<1>2. Inv /\ [Next]_vars =>
        [\A s \in Setups :
           /\ setup[s].pc \in {"restore", "compare", "exchangeBack", "drop"}
           /\ setup'[s].pc # setup[s].pc
           => Kept(s)]_vars
  BY <1>1
<1> QED BY <1>2, Invariant, PTL DEF Spec, NothingLost
=============================================================================
