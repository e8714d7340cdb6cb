------------------------------- MODULE Migration ------------------------------
(***************************************************************************)
(* Opening a SQLite file of an older version: runMigrations of             *)
(* src/storage/providers/sqlite.ts with the schema of src/schema/index.ts. *)
(*                                                                         *)
(* The statements are not one transaction: each commits by itself, and the *)
(* process may be killed between any two.  The next open starts over from  *)
(* what it finds in the file.                                              *)
(***************************************************************************)
EXTENDS Naturals, FiniteSets

CONSTANTS
  Mem,         \* memories of the old file
  Archived,    \* those that are archived
  TextOf,      \* the text of a memory; all are of one agent
  UpdatedAt,   \* its place in ORDER BY updated_at, where rows of one moment keep their order
  MaxCrashes   \* bound on the crashes

ASSUME MigrationAssumption ==
  /\ IsFiniteSet(Mem) /\ Archived \subseteq Mem
  /\ UpdatedAt \in [Mem -> Nat]
  /\ \A m, n \in Mem : UpdatedAt[m] = UpdatedAt[n] => m = n
  /\ MaxCrashes \in Nat

VARIABLES
  file,      \* what is in the database file
  step,      \* the statement that runMigrations comes to
  rest,      \* memories the loop at this step has still to visit
  crashes,
  hurt       \* history: the windows of the procedure that a crash fell into

migrationVars == <<file, step, rest, crashes, hurt>>

NoHash == "NULL"

ActiveMem == Mem \ Archived

\* A history row stands for all of a memory.
OldFile(v, unindexed) ==
  [version |-> v,
   history |-> IF v < 3 THEN "old" ELSE "updated",
   events |-> Mem, copy |-> "none", copied |-> {},
   hashColumn |-> v >= 3,
   hash |-> [m \in Mem |-> IF v >= 3 /\ m \in ActiveMem
                              /\ \A n \in ActiveMem : TextOf[n] = TextOf[m] =>
                                   UpdatedAt[n] <= UpdatedAt[m]
                           THEN TextOf[m] ELSE NoHash],
   rowVersion |-> FALSE,
   uniqueIndex |-> v >= 3,
   fts |-> ActiveMem \ unindexed,
   vectors |-> IF v < 4 THEN Mem ELSE ActiveMem]

\* Files of version 2, 3 and 4.  A build of SQLite without FTS5 may have written
\* some of their memories, which then have no keyword entry.
MigrationInit ==
  /\ \E v \in 2 .. 4, unindexed \in SUBSET ActiveMem : file = OldFile(v, unindexed)
  /\ step = "closed" /\ rest = {} /\ crashes = 0 /\ hurt = {}

Newest(ms) == CHOOSE m \in ms : \A n \in ms : UpdatedAt[n] <= UpdatedAt[m]

GoTo(s) == step' = s /\ UNCHANGED <<rest, crashes, hurt>>

\* CREATE TABLE IF NOT EXISTS of every table.
Created == IF file.history = "none"
           THEN [file EXCEPT !.history = "updated", !.events = {}] ELSE file

\* Where the upgrade of a file starts, by its version.
FirstStep ==
  IF file.version < 3 THEN "clearFts"
  ELSE IF file.version < 4 THEN "dropVectors"
  ELSE IF file.version < 5 THEN "addVersion" ELSE "open"

\* Faulty variant: the version is written before the other steps.
BeginUpgrade_VersionFirst ==
  /\ step = "closed"
  /\ file' = [Created EXCEPT !.version = 5]
  /\ step' = FirstStep
  /\ UNCHANGED <<rest, crashes, hurt>>

\* The version that the file has decides where to start.
BeginUpgrade ==
  /\ step = "closed"
  /\ file' = Created
  /\ step' = FirstStep
  /\ UNCHANGED <<rest, crashes, hurt>>

--------------------------------------------------------------------------------
(* backfillFts, in the upgrade and again in ensureFtsConsistency. *)

ClearFts ==
  /\ step \in {"clearFts", "clearFtsAgain"}
  /\ file' = [file EXCEPT !.fts = {}]
  /\ rest' = ActiveMem
  /\ step' = IF step = "clearFts" THEN "fillFts" ELSE "fillFtsAgain"
  /\ UNCHANGED <<crashes, hurt>>

FillFts ==
  /\ step \in {"fillFts", "fillFtsAgain"}
  /\ IF rest = {}
     THEN /\ step' = IF step = "fillFts" THEN "addHash" ELSE "open"
          /\ UNCHANGED <<file, rest>>
     ELSE \E m \in rest : /\ file' = [file EXCEPT !.fts = @ \cup {m}]
                          /\ rest' = rest \ {m}
                          /\ step' = step
  /\ UNCHANGED <<crashes, hurt>>

--------------------------------------------------------------------------------
(* migrateToV3 *)

AddHash ==
  /\ step = "addHash"
  /\ file' = [file EXCEPT !.hashColumn = TRUE]
  /\ rest' = ActiveMem
  /\ step' = "hashAll"
  /\ UNCHANGED <<crashes, hurt>>

HashRefused(m, h) ==
  /\ file.uniqueIndex
  /\ \E n \in ActiveMem \ {m} : file.hash[n] = h /\ h # NoHash

\* An UPDATE of one memory in a loop, the newest first.
SetHash(m, h) ==
  IF HashRefused(m, h) THEN step' = "failed" /\ UNCHANGED <<file, rest>>
  ELSE /\ file' = [file EXCEPT !.hash[m] = h]
       /\ rest' = rest \ {m}
       /\ step' = step

\* The first loop gives every active memory its hash.
HashAll ==
  /\ step = "hashAll"
  /\ IF rest # {} THEN SetHash(Newest(rest), TextOf[Newest(rest)])
     ELSE step' = "hashNewest" /\ rest' = ActiveMem /\ UNCHANGED file
  /\ UNCHANGED <<crashes, hurt>>

Seen == {TextOf[m] : m \in ActiveMem \ rest}

HashOfNewest(m) == IF TextOf[m] \in Seen THEN NoHash ELSE TextOf[m]

\* The second takes it away from older duplicates.
HashNewest ==
  /\ step = "hashNewest"
  /\ IF rest # {} THEN SetHash(Newest(rest), HashOfNewest(Newest(rest)))
     ELSE step' = "checkHistory" /\ UNCHANGED <<file, rest>>
  /\ UNCHANGED <<crashes, hurt>>

\* migrateHistoryAllowUpdated: what sqlite_master says of the table.
CheckHistory ==
  /\ step = "checkHistory"
  /\ GoTo(IF file.history = "updated" THEN "dropVectors" ELSE "createCopy")
  /\ UNCHANGED file

CreateCopy ==
  /\ step = "createCopy"
  /\ file' = [file EXCEPT !.copy = "there"]
  /\ GoTo("copyHistory")

\* INSERT ... SELECT: the primary key refuses a second copy.
CopyHistory ==
  /\ step = "copyHistory"
  /\ IF file.copied \cap file.events # {}
     THEN GoTo("failed") /\ UNCHANGED file
     ELSE GoTo("dropHistory") /\ file' = [file EXCEPT !.copied = file.events]

DropHistory ==
  /\ step = "dropHistory"
  /\ file' = [file EXCEPT !.history = "none", !.events = {}]
  /\ GoTo("renameCopy")

RenameCopy ==
  /\ step = "renameCopy"
  /\ file' = [file EXCEPT !.history = "updated", !.events = file.copied,
                          !.copy = "none", !.copied = {}]
  /\ GoTo("dropVectors")

--------------------------------------------------------------------------------
(* migrateToV4, migrateToV5, and the end *)

DropVectors ==
  /\ step = "dropVectors"
  /\ file' = [file EXCEPT !.vectors = @ \ Archived]
  /\ GoTo("addVersion")

AddVersion ==
  /\ step = "addVersion"
  /\ file' = [file EXCEPT !.rowVersion = TRUE]
  /\ GoTo("createIndexes")

CreateIndexes ==
  /\ step = "createIndexes"
  /\ IF \E m, n \in ActiveMem : m # n /\ file.hash[m] = file.hash[n] /\ file.hash[m] # NoHash
     THEN GoTo("failed") /\ UNCHANGED file
     ELSE GoTo("setVersion") /\ file' = [file EXCEPT !.uniqueIndex = TRUE]

SetVersion ==
  /\ step = "setVersion"
  /\ file' = [file EXCEPT !.version = 5]
  /\ GoTo("compareFts")

\* ensureFtsConsistency compares the counts.
CompareFts ==
  /\ step = "compareFts"
  /\ GoTo(IF Cardinality(file.fts) = Cardinality(ActiveMem) THEN "open" ELSE "clearFtsAgain")
  /\ UNCHANGED file

--------------------------------------------------------------------------------

\* Where a crash does harm that no later open repairs.
Window ==
  IF step = "dropHistory" /\ file.copied # {} THEN {"copied"}
  ELSE IF step = "renameCopy" THEN {"dropped"}
  ELSE IF step = "setVersion" /\ file.version < 3 THEN {"indexed"}
  ELSE IF step \in {"compareFts", "clearFtsAgain", "fillFtsAgain"} THEN {"versioned"}
  ELSE {}

UpgradeCrash ==
  /\ step \notin {"closed", "open", "failed"}
  /\ crashes < MaxCrashes
  /\ crashes' = crashes + 1
  /\ hurt' = hurt \cup Window
  /\ step' = "closed" /\ rest' = {}
  /\ UNCHANGED file

MigrationNext ==
  \/ BeginUpgrade \/ ClearFts \/ FillFts \/ AddHash \/ HashAll \/ HashNewest
  \/ CheckHistory \/ CreateCopy \/ CopyHistory \/ DropHistory \/ RenameCopy
  \/ DropVectors \/ AddVersion \/ CreateIndexes \/ SetVersion \/ CompareFts
  \/ UpgradeCrash

--------------------------------------------------------------------------------
(* Properties *)

\* What the code relies on in a file of version 5.
Sound ==
  /\ file.version = 5 /\ file.hashColumn /\ file.rowVersion /\ file.uniqueIndex
  /\ file.history = "updated" /\ file.events = Mem
  /\ file.fts = ActiveMem
  /\ file.vectors \cap Archived = {}
  /\ \A m \in ActiveMem : file.hash[m] =
       IF m = Newest({n \in ActiveMem : TextOf[n] = TextOf[m]}) THEN TextOf[m] ELSE NoHash

\* However often the process is killed while it upgrades a file, an open that
\* comes to its end finds every table complete and none fails, unless a crash fell
\* between copying the history and dropping it (every later open fails on the
\* primary key), between dropping it and renaming the copy (the history is gone),
\* between the unique index and the version (duplicates make later opens fail) or
\* between the version and the rebuilt keyword index (which nobody checks again).
UpgradeSurvivesCrashes ==
  hurt = {} => /\ step # "failed"
               /\ step = "open" => Sound

================================================================================
