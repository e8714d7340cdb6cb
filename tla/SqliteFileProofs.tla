--------------------------- MODULE SqliteFileProofs ----------------------------
(***************************************************************************)
(* Proofs about Lifecycle and Migration: what a database file, its WAL and *)
(* its checkpoints hold whatever the process does and wherever it stops,   *)
(* and that the upgrade to version 3 can be interrupted anywhere and run   *)
(* again, for any number of memories.                                      *)
(***************************************************************************)
EXTENDS Lifecycle, Migration, FiniteSetTheorems, WellFoundedInduction, TLAPS

--------------------------------------------------------------------------------
(* Lifecycle *)

LifeSpec == LifeInit /\ [][LifeNext]_lifeVars

\* Whose files these are does not matter: one that is missing has no content.
File == [there : BOOLEAN, main : SUBSET Nat, wal : SUBSET Nat, whole : BOOLEAN]

GoodFile == {f \in File : ~f.there => f.main = {} /\ f.wal = {} /\ f.whole}

LifeTypes ==
  /\ disk \in [target : GoodFile, tmp : GoodFile, snapshot : GoodFile, meta : BOOLEAN,
               bundle : GoodFile, manifest : BOOLEAN]
  /\ storageOpen \in BOOLEAN
  /\ facade \in [configured : BOOLEAN, initialized : BOOLEAN,
                 at : {"idle", "booting", "closing"}]
  /\ transfer \in [op : {"none", "rollback", "import"},
                   at : {"idle", "closed", "copied", "removed", "swapped", "failed"},
                   copy : GoodFile]
  /\ saver \in [op : {"none", "checkpoint", "delete", "export"},
                at : {"idle", "start", "copied", "renamed", "unlisted"}, copy : GoodFile]
  /\ writes \in Nat

\* The stretches that are not interrupted are those that sync names, and a transfer
\* runs in an instance that has booted and has its connection closed.
Stretches ==
  /\ transfer.at = "removed" <=> sync = "transfer"
  /\ saver.at \in {"renamed", "unlisted"} <=> sync = "saver"
  /\ transfer.op = "none" <=> transfer.at = "idle"
  /\ saver.op = "none" <=> saver.at = "idle"
  /\ saver.at = "copied" => saver.op \in {"checkpoint", "export"}
  /\ saver.at = "renamed" => saver.op = "checkpoint"
  /\ saver.at = "unlisted" => saver.op = "delete"
  /\ transfer.op # "none" => facade.initialized /\ facade.at = "idle" /\ ~storageOpen
  /\ facade.at = "booting" => ~facade.initialized

\* Also while it is closed, but for the moments in which no file has it.
FileAsPromised ==
  /\ windows = {} /\ transfer.at # "removed" =>
       disk.target.whole /\ Content(disk.target) = promised
  /\ transfer.op = "import" /\ transfer.at \in {"copied", "removed"} => disk.tmp.whole
  /\ storageOpen => disk.target.there

\* The copy that a checkpoint will be.
AsMeant(f) == f.there /\ f.whole /\ (lagged \/ Content(f) = meant)

CheckpointsAsMeant ==
  /\ disk.meta => AsMeant(disk.snapshot)
  /\ saver.op = "checkpoint" \/ saver.at = "unlisted" => ~disk.meta
  /\ saver.op = "checkpoint" /\ saver.at = "copied" => AsMeant(saver.copy)
  /\ saver.at = "renamed" => AsMeant(disk.snapshot)

LifeInv == LifeTypes /\ Stretches /\ FileAsPromised /\ CheckpointsAsMeant

--------------------------------------------------------------------------------
(* Files *)

LEMMA MissingFile == NoFile \in GoodFile /\ TornFile \in GoodFile /\ Content(NoFile) = {} /\ NoFile.whole
BY DEF GoodFile, File, NoFile, TornFile, Content

LEMMA FileHolds ==
  ASSUME NEW ms \in SUBSET Nat
  PROVE  /\ FileOf(ms) \in GoodFile /\ FileOf(ms).there /\ FileOf(ms).whole
         /\ Content(FileOf(ms)) = ms
BY DEF GoodFile, File, NoFile, FileOf, Content

LEMMA ContentType ==
  ASSUME NEW f \in GoodFile
  PROVE  /\ Content(f) \in SUBSET Nat /\ f.there \in BOOLEAN /\ f.whole \in BOOLEAN
         /\ ~f.there => Content(f) = {} /\ f.whole
BY DEF GoodFile, File, Content

\* A checkpoint of the WAL moves what is in a file, and changes nothing else.
LEMMA CheckpointedHolds ==
  ASSUME NEW f \in GoodFile, NEW held \in BOOLEAN
  PROVE  /\ Checkpointed(f, held) \in GoodFile
         /\ Content(Checkpointed(f, held)) = Content(f)
         /\ Checkpointed(f, held).there = f.there
         /\ Checkpointed(f, held).whole = f.whole
BY DEF GoodFile, File, Checkpointed, Content

LEMMA BackupHolds ==
  ASSUME NEW f \in GoodFile, NEW held \in BOOLEAN
  PROVE  /\ Backup(f, held) \in GoodFile /\ Backup(f, held).there /\ Backup(f, held).whole
         /\ ~held => Content(Backup(f, held)) = Content(f)
<1>1. Checkpointed(f, held).main \in SUBSET Nat
  BY CheckpointedHolds DEF GoodFile, File
<1>2. ~held => Checkpointed(f, held).main = Content(f)
  BY DEF Checkpointed, GoodFile, File
<1> QED BY <1>1, <1>2, FileHolds DEF Backup

--------------------------------------------------------------------------------
(* The steps *)

\* Only the target changes, and keeps what it had.
TargetKeeps ==
  /\ disk'.target \in GoodFile /\ disk' = [disk EXCEPT !.target = disk'.target]
  /\ Content(disk'.target) = Content(disk.target)
  /\ disk'.target.whole = disk.target.whole

LEMMA TargetIs ==
  ASSUME LifeTypes, NEW f \in GoodFile, disk' = [disk EXCEPT !.target = f],
         Content(f) = Content(disk.target), f.whole = disk.target.whole
  PROVE  TargetKeeps /\ disk'.target = f
BY DEF LifeTypes, TargetKeeps

LEMMA OpenKeeps == ASSUME LifeTypes, OpenStorage
                   PROVE  TargetKeeps /\ storageOpen' \in BOOLEAN /\ disk'.target.there
<1>1. disk.target \in GoodFile
  BY DEF LifeTypes
<1>2. CASE disk.target.there
  BY <1>1, <1>2, ContentType, TargetIs DEF OpenStorage
<1>3. CASE ~disk.target.there
  <2>1. Content(disk.target) = {} /\ disk.target.whole
    BY <1>1, <1>3, ContentType
  <2>2. FileOf({}) \in GoodFile /\ FileOf({}).whole /\ FileOf({}).there /\ Content(FileOf({})) = {}
    BY FileHolds
  <2>3. disk' = [disk EXCEPT !.target = FileOf({})] /\ storageOpen' = FileOf({}).whole
    BY <1>3 DEF OpenStorage
  <2> QED BY <1>1, <2>1, <2>2, <2>3, ContentType, TargetIs
<1> QED BY <1>2, <1>3

LEMMA CloseKeeps == ASSUME LifeTypes, CloseConnection PROVE TargetKeeps /\ storageOpen' = FALSE
<1>1. disk.target \in GoodFile
  BY DEF LifeTypes
<1>2. CASE storageOpen
  <2>1. disk' = [disk EXCEPT !.target = Checkpointed(disk.target, FALSE)]
    BY <1>2 DEF CloseConnection, LifeTypes
  <2> QED BY <1>1, <2>1, CheckpointedHolds, TargetIs DEF CloseConnection
<1>3. CASE ~storageOpen
  <2>1. disk' = [disk EXCEPT !.target = disk.target]
    BY <1>3 DEF CloseConnection, LifeTypes
  <2> QED BY <1>1, <2>1, TargetIs DEF CloseConnection
<1> QED BY <1>2, <1>3

LEMMA LifeStep ==
  ASSUME LifeInv, [LifeNext]_lifeVars
  PROVE  LifeInv'
<1> USE DEF LifeInv, LifeTypes, Stretches, FileAsPromised, CheckpointsAsMeant, AsMeant,
            Free, Ready, Idle, counts, history
<1>1. CASE BootStorage
  <2>1. TargetKeeps /\ storageOpen' \in BOOLEAN /\ disk'.target.there
    BY <1>1, OpenKeeps DEF BootStorage
  <2> QED BY <1>1, <2>1, MissingFile DEF BootStorage, TargetKeeps, NoCall
<1>2. CASE BootEnds
  BY <1>2 DEF BootEnds
<1>3. CASE BootFails
  <2>1. TargetKeeps /\ storageOpen' = FALSE
    BY <1>3, CloseKeeps DEF BootFails
  <2>2. LifeTypes'
    BY <1>3, <2>1 DEF BootFails, TargetKeeps
  <2>3. Stretches'
    BY <1>3, <2>1 DEF BootFails, TargetKeeps
  <2>4. FileAsPromised'
    BY <1>3, <2>1 DEF BootFails, TargetKeeps
  <2>5. CheckpointsAsMeant'
    BY <1>3, <2>1 DEF BootFails, TargetKeeps
  <2> QED BY <2>2, <2>3, <2>4, <2>5
<1>4. CASE CloseStorage
  <2>1. TargetKeeps /\ storageOpen' = FALSE
    BY <1>4, CloseKeeps DEF CloseStorage
  <2>2. LifeTypes'
    BY <1>4, <2>1 DEF CloseStorage, TargetKeeps
  <2>3. Stretches'
    BY <1>4, <2>1 DEF CloseStorage, TargetKeeps
  <2>4. FileAsPromised'
    BY <1>4, <2>1 DEF CloseStorage, TargetKeeps
  <2>5. CheckpointsAsMeant'
    BY <1>4, <2>1 DEF CloseStorage, TargetKeeps
  <2> QED BY <2>2, <2>3, <2>4, <2>5
<1>5. CASE CloseEnds
  BY <1>5 DEF CloseEnds
<1>6. CASE Remember
  <2> DEFINE f == [disk.target EXCEPT !.wal = @ \cup {writes + 1}]
  <2>1. disk' = [disk EXCEPT !.target = f]
    BY <1>6 DEF Remember
  <2>2. disk.target \in GoodFile /\ writes + 1 \in Nat /\ disk.target.there
    BY <1>6 DEF Remember
  <2>3. f \in GoodFile /\ f.whole = disk.target.whole
    BY <2>2 DEF GoodFile, File
  <2>4. Content(f) = Content(disk.target) \cup {writes + 1}
    BY <2>2 DEF GoodFile, File, Content
  <2> HIDE DEF f
  <2>5. LifeTypes'
    BY <1>6, <2>1, <2>2, <2>3, <2>4 DEF Remember
  <2>6. Stretches'
    BY <1>6, <2>1, <2>2, <2>3, <2>4 DEF Remember
  <2>7. FileAsPromised'
    <3>1. disk'.target = f /\ disk'.tmp = disk.tmp /\ transfer' = transfer
      BY <1>6, <2>1 DEF Remember
    <3>2. f.there
      BY <2>2 DEF f, GoodFile, File
    <3> QED BY <1>6, <2>3, <2>4, <3>1, <3>2 DEF Remember
  <2>8. CheckpointsAsMeant'
    BY <1>6, <2>1, <2>2, <2>3, <2>4 DEF Remember
  <2> QED BY <2>5, <2>6, <2>7, <2>8
<1>7. CASE Saves
  <2>1. PICK held \in BOOLEAN :
          LET copy == Backup(disk.target, held)
          IN  /\ saver' = [saver EXCEPT !.at = "copied", !.copy = copy]
              /\ disk' = [disk EXCEPT
                   !.target = IF @.there THEN Checkpointed(@, held) ELSE FileOf({}),
                   !.bundle = IF saver.op = "export" THEN copy ELSE @]
              /\ lagged' = IF saver.op = "checkpoint" THEN held ELSE lagged
    BY <1>7 DEF Saves
  <2> DEFINE copy == Backup(disk.target, held)
  <2>2. copy \in GoodFile /\ copy.there /\ copy.whole /\ (~held => Content(copy) = Content(disk.target))
    BY BackupHolds
  <2>3. disk'.target = IF disk.target.there THEN Checkpointed(disk.target, held) ELSE FileOf({})
    BY <2>1
  <2>4. /\ disk'.target \in GoodFile /\ Content(disk'.target) = Content(disk.target)
        /\ disk'.target.whole = disk.target.whole /\ disk'.target.there
    <3>1. disk.target \in GoodFile /\ {} \in SUBSET Nat
      OBVIOUS
    <3>2. CASE disk.target.there
      <4> DEFINE g == Checkpointed(disk.target, held)
      <4>1. /\ g \in GoodFile /\ Content(g) = Content(disk.target)
            /\ g.there = disk.target.there /\ g.whole = disk.target.whole
        BY <3>1, CheckpointedHolds
      <4>2. disk'.target = g
        BY <2>3, <3>2
      <4> QED BY <3>2, <4>1, <4>2
    <3>3. CASE ~disk.target.there
      <4>1. Content(disk.target) = {} /\ disk.target.whole
        BY <3>1, <3>3, ContentType
      <4>2. /\ FileOf({}) \in GoodFile /\ FileOf({}).whole /\ FileOf({}).there
            /\ Content(FileOf({})) = {}
        BY <3>1, FileHolds
      <4> QED BY <2>3, <3>3, <4>1, <4>2
    <3> QED BY <3>2, <3>3
  <2> HIDE DEF copy
  <2>5. /\ disk' = [target |-> disk'.target, tmp |-> disk.tmp, snapshot |-> disk.snapshot,
                    meta |-> disk.meta, bundle |-> disk'.bundle, manifest |-> disk.manifest]
        /\ disk'.bundle = IF saver.op = "export" THEN copy ELSE disk.bundle
        /\ saver' = [op |-> saver.op, at |-> "copied", copy |-> copy]
    BY <2>1 DEF copy
  <2>6. LifeTypes'
    BY <1>7, <2>1, <2>2, <2>4, <2>5 DEF Saves
  <2>7. Stretches'
    BY <1>7, <2>5 DEF Saves
  <2>8. FileAsPromised'
    BY <1>7, <2>4, <2>5 DEF Saves
  <2>9. CheckpointsAsMeant'
    <3>1. CASE saver.op = "checkpoint"
      <4>1. meant' = Content(disk.target) /\ lagged' = held
        BY <1>7, <2>1, <3>1 DEF Saves
      <4>2. ~disk.meta /\ disk'.meta = disk.meta /\ saver'.at = "copied" /\ saver'.copy = copy
        BY <2>5, <3>1
      <4> QED BY <2>2, <4>1, <4>2
    <3>2. CASE saver.op = "export"
      BY <1>7, <2>1, <2>5, <3>2 DEF Saves
    <3> QED BY <1>7, <3>1, <3>2 DEF Saves
  <2> QED BY <2>6, <2>7, <2>8, <2>9
<1>8. CASE Manifest
  BY <1>8, MissingFile DEF Manifest, NoCall
<1>9. CASE Snapshot
  BY <1>9 DEF Snapshot
<1>10. CASE WriteMeta
  BY <1>10, MissingFile DEF WriteMeta, NoCall
<1>11. CASE DeleteMeta
  BY <1>11 DEF DeleteMeta
<1>12. CASE DeleteSnapshot
  BY <1>12, MissingFile DEF DeleteSnapshot, NoCall
<1>13. CASE RollbackRemoves
  <2>1. CASE disk.meta
    <3>1. disk' = [disk EXCEPT !.target = NoFile] /\ sync' = "transfer"
          /\ transfer' = [transfer EXCEPT !.at = "removed"]
      BY <1>13, <2>1 DEF RollbackRemoves, Removed
    <3> QED BY <1>13, <3>1, MissingFile DEF RollbackRemoves
  <2>2. CASE ~disk.meta
    BY <1>13, <2>2 DEF RollbackRemoves, Fails
  <2> QED BY <2>1, <2>2
<1>14. CASE RollbackCopies
  BY <1>14, BackupHolds DEF RollbackCopies
<1>15. CASE RollbackCopyFails
  <2>1. PICK f \in {NoFile, TornFile} : disk' = [disk EXCEPT !.target = f]
    BY <1>15 DEF RollbackCopyFails
  <2>2. f \in GoodFile
    BY MissingFile
  <2> QED BY <1>15, <2>1, <2>2 DEF RollbackCopyFails, Fails
<1>16. CASE ImportCopies
  <2>1. CASE disk.bundle.there /\ disk.manifest
    <3>1. /\ disk' = [disk EXCEPT !.tmp = Backup(disk.bundle, FALSE)]
          /\ transfer' = [transfer EXCEPT !.at = "copied"] /\ UNCHANGED sync
      BY <1>16, <2>1 DEF ImportCopies
    <3>2. Backup(disk.bundle, FALSE) \in GoodFile /\ Backup(disk.bundle, FALSE).whole
      BY BackupHolds
    <3> QED BY <1>16, <3>1, <3>2 DEF ImportCopies
  <2>2. CASE ~(disk.bundle.there /\ disk.manifest)
    <3>1. disk' = disk /\ sync' = "none" /\ transfer' = [transfer EXCEPT !.at = "failed"]
      BY <1>16, <2>2 DEF ImportCopies, Fails
    <3> QED BY <1>16, <3>1 DEF ImportCopies
  <2> QED BY <2>1, <2>2
<1>17. CASE ImportCopyFails
  <2>1. PICK f \in {NoFile, TornFile} : disk' = [disk EXCEPT !.tmp = f]
    BY <1>17 DEF ImportCopyFails
  <2>2. f \in GoodFile
    BY MissingFile
  <2> QED BY <1>17, <2>1, <2>2 DEF ImportCopyFails, Fails
<1>18. CASE ImportRemoves
  BY <1>18, MissingFile DEF ImportRemoves, Removed
<1>19. CASE ImportRenames
  BY <1>19, MissingFile DEF ImportRenames
<1>20. CASE Reopen
  <2>1. TargetKeeps /\ storageOpen' \in BOOLEAN /\ disk'.target.there
    BY <1>20, OpenKeeps DEF Reopen
  <2> QED BY <1>20, <2>1, MissingFile DEF Reopen, TargetKeeps, NoCall
<1>21. CASE Kill
  BY <1>21, MissingFile DEF Kill, NoCall
<1>22. ASSUME NEW op \in {"checkpoint", "delete", "export"}, SaverStarts(op)
      PROVE  LifeInv'
  BY <1>22, MissingFile DEF SaverStarts, NoCall
<1>23. ASSUME NEW op \in {"rollback", "import"}, TransferStarts(op)
      PROVE  LifeInv'
  <2>1. TargetKeeps /\ storageOpen' = FALSE
    BY <1>23, CloseKeeps DEF TransferStarts
  <2>2. LifeTypes'
    BY <1>23, <2>1, MissingFile DEF TransferStarts, TargetKeeps, NoCall
  <2>3. Stretches'
    BY <1>23, <2>1, MissingFile DEF TransferStarts, TargetKeeps, NoCall
  <2>4. FileAsPromised'
    BY <1>23, <2>1, MissingFile DEF TransferStarts, TargetKeeps, NoCall
  <2>5. CheckpointsAsMeant'
    BY <1>23, <2>1, MissingFile DEF TransferStarts, TargetKeeps, NoCall
  <2> QED BY <2>2, <2>3, <2>4, <2>5
<1>24. CASE UNCHANGED lifeVars
  BY <1>24 DEF lifeVars
<1> QED BY <1>1, <1>2, <1>3, <1>4, <1>5, <1>6, <1>7, <1>8, <1>9, <1>10, <1>11, <1>12,
           <1>13, <1>14, <1>15, <1>16, <1>17, <1>18, <1>19, <1>20, <1>21, <1>22, <1>23, <1>24 DEF LifeNext

LEMMA LifeStart == LifeInit => LifeInv
<1> SUFFICES ASSUME LifeInit PROVE LifeInv
  OBVIOUS
<1> USE MissingFile DEF LifeInit, NoCall
<1>1. LifeTypes
  BY DEF LifeTypes
<1>2. Stretches
  BY DEF Stretches
<1>3. FileAsPromised
  BY DEF FileAsPromised
<1>4. CheckpointsAsMeant
  BY DEF CheckpointsAsMeant
<1> QED BY <1>1, <1>2, <1>3, <1>4 DEF LifeInv

LEMMA LifeInductive == LifeSpec => []LifeInv
<1>1. LifeInv /\ [LifeNext]_lifeVars => LifeInv'
  BY LifeStep
<1> QED BY <1>1, LifeStart, PTL DEF LifeSpec

\* However many rollbacks, imports, failures and kills a database goes through, an open
\* one has exactly what the calls that succeeded promised, unless one of the windows
\* that Lifecycle names was hit.
THEOREM DatabaseIsAsPromised == LifeSpec => []DatabaseAsPromised
<1>1. LifeInv => DatabaseAsPromised
  BY DEF LifeInv, Stretches, LifeTypes, FileAsPromised, DatabaseAsPromised
<1> QED BY <1>1, LifeInductive, PTL

\* A checkpoint that is listed can be rolled back to: its file is what the database
\* was when it was made, whatever happened since (unless a reader of another process had
\* held the WAL back).
THEOREM ListedCheckpointsAreWhole == LifeSpec => []CheckpointsAreWhole
<1>1. LifeInv => CheckpointsAreWhole
  BY DEF LifeInv, CheckpointsAsMeant, AsMeant, CheckpointsAreWhole
<1> QED BY <1>1, LifeInductive, PTL

--------------------------------------------------------------------------------
(* Migration *)

MigrationSpec == MigrationInit /\ [][MigrationNext]_migrationVars

\* The statements in groups: those of migrateToV3, those after it, and those that
\* come after the version has been written.
HashSteps == {"clearFts", "fillFts", "addHash", "hashAll", "hashNewest"}
HistorySteps == {"checkHistory", "createCopy", "copyHistory", "dropHistory", "renameCopy"}
LaterSteps == {"dropVectors", "addVersion", "createIndexes", "setVersion"}
LastSteps == {"compareFts", "clearFtsAgain", "fillFtsAgain", "open"}

FileTypes ==
  /\ file \in [version : 2 .. 5, history : {"none", "old", "updated"},
               events : SUBSET Mem, copy : {"none", "there"}, copied : SUBSET Mem,
               hashColumn : BOOLEAN, hash : {file.hash}, rowVersion : BOOLEAN,
               uniqueIndex : BOOLEAN, fts : SUBSET ActiveMem, vectors : SUBSET Mem]
  /\ DOMAIN file.hash = Mem
  /\ step \in {"closed"} \cup HashSteps \cup HistorySteps \cup LaterSteps \cup LastSteps
  /\ rest \subseteq ActiveMem

\* What has been done to a file of this version at this step.
Done ==
  /\ file.version = 5 <=> step \in LastSteps
  /\ step \in HashSteps \cup HistorySteps => file.version = 2
  /\ \/ file.version >= 3 \/ step \in {"hashAll", "hashNewest"} \cup HistorySteps \cup LaterSteps
     => file.hashColumn
  /\ step \in {"createIndexes", "setVersion"} \cup LastSteps => file.rowVersion
  /\ file.uniqueIndex <=> file.version >= 3 \/ step = "setVersion"
  /\ file.version >= 4 \/ step \in LaterSteps \ {"dropVectors"} =>
       file.vectors \cap Archived = {}

\* The history is copied at most once, and is in one of its two tables.
HistoryKept ==
  /\ IF step = "renameCopy" THEN file.history = "none" /\ file.events = {}
     ELSE file.history \in {"old", "updated"} /\ file.events = Mem
  /\ file.copied = IF step \in {"dropHistory", "renameCopy"} THEN Mem ELSE {}
  /\ file.version >= 3 \/ step \in LaterSteps => file.history = "updated"

SameText(m) == {n \in ActiveMem : TextOf[n] = TextOf[m]}

HashRight(m) == file.hash[m] = IF m = Newest(SameText(m)) THEN TextOf[m] ELSE NoHash

\* The second loop has come from the newest memory down to those in rest.
HashesKept ==
  /\ step = "hashNewest" =>
       \A n \in ActiveMem \ rest : HashRight(n) /\ \A m \in rest : UpdatedAt[m] <= UpdatedAt[n]
  /\ file.version >= 3 \/ step \in HistorySteps \cup LaterSteps =>
       \A m \in ActiveMem : HashRight(m)

KeywordsKept ==
  /\ step \in {"fillFts", "fillFtsAgain"} => file.fts \cup rest = ActiveMem
  /\ step = "open" => file.fts = ActiveMem

\* As long as no crash fell into one of the windows.
MigrationInv ==
  hurt = {} => FileTypes /\ Done /\ HistoryKept /\ HashesKept /\ KeywordsKept

--------------------------------------------------------------------------------
(* The newest memory *)

IsNewest(m, ms) == m \in ms /\ \A n \in ms : UpdatedAt[n] <= UpdatedAt[m]

\* Finitely many memories have a newest one: else take a smallest set without.
LEMMA NewestExists ==
  ASSUME MigrationAssumption, NEW ms \in SUBSET Mem, ms # {}
  PROVE  \E m \in ms : IsNewest(m, ms)
<1> DEFINE Bad(k) == \E ns \in SUBSET Mem : /\ ns # {} /\ Cardinality(ns) = k
                                            /\ \A m \in ns : ~IsNewest(m, ns)
           T == {k \in Nat : Bad(k)}
<1>1. \A ns \in SUBSET Mem : IsFiniteSet(ns) /\ Cardinality(ns) \in Nat
  BY FS_Subset, FS_CardinalityType DEF MigrationAssumption
<1>2. ASSUME T # {}
      PROVE  FALSE
  <2>1. T \subseteq Nat
    OBVIOUS
  <2>2. PICK k \in T : \A l \in T : ~(<<l, k>> \in OpToRel(<, Nat))
    BY <1>2, <2>1, NatLessThanWellFounded, WFMin
  <2>3. k \in Nat /\ Bad(k) /\ \A l \in T : ~(l < k)
    BY <2>1, <2>2 DEF OpToRel
  <2>4. PICK ns \in SUBSET Mem : /\ ns # {} /\ Cardinality(ns) = k
                                 /\ \A m \in ns : ~IsNewest(m, ns)
    BY <2>3
  <2>5. PICK x : x \in ns
    BY <2>4
  <2> DEFINE rs == ns \ {x}
  <2>6. rs \in SUBSET Mem /\ Cardinality(rs) = k - 1 /\ Cardinality(rs) \in Nat
    BY <1>1, <2>4, <2>5, FS_RemoveElement
  <2>7. CASE rs = {}
    <3>1. IsNewest(x, ns)
      BY <2>5, <2>7 DEF IsNewest, MigrationAssumption
    <3> QED BY <2>4, <2>5, <3>1
  <2>8. CASE rs # {}
    <3>1. k - 1 \notin T /\ k - 1 \in Nat
      BY <2>3, <2>6
    <3>2. PICK y \in rs : IsNewest(y, rs)
      BY <2>6, <2>8, <3>1
    <3>3. \A n \in ns : UpdatedAt[n] \in Nat
      BY <2>4 DEF MigrationAssumption
    <3>4. CASE UpdatedAt[x] <= UpdatedAt[y]
      BY <2>4, <3>2, <3>4 DEF IsNewest
    <3>5. CASE ~(UpdatedAt[x] <= UpdatedAt[y])
      <4>1. IsNewest(x, ns)
        BY <2>5, <3>2, <3>3, <3>5 DEF IsNewest
      <4> QED BY <2>4, <2>5, <4>1
    <3> QED BY <3>4, <3>5
  <2> QED BY <2>7, <2>8
<1>3. ~Bad(Cardinality(ms))
  BY <1>1, <1>2
<1> QED BY <1>3

LEMMA NewestDef ==
  ASSUME MigrationAssumption, NEW ms \in SUBSET Mem, ms # {}
  PROVE  /\ IsNewest(Newest(ms), ms)
         /\ \A m \in ms : IsNewest(m, ms) => m = Newest(ms)
<1>1. IsNewest(Newest(ms), ms)
  <2>1. \E m \in ms : \A n \in ms : UpdatedAt[n] <= UpdatedAt[m]
    BY NewestExists DEF IsNewest
  <2> QED BY <2>1 DEF Newest, IsNewest
<1>2. ASSUME NEW m \in ms, IsNewest(m, ms)
      PROVE  m = Newest(ms)
  <2>1. UpdatedAt[m] \in Nat /\ UpdatedAt[Newest(ms)] \in Nat /\ Newest(ms) \in Mem /\ m \in Mem
    BY <1>1 DEF IsNewest, MigrationAssumption
  <2>2. UpdatedAt[m] = UpdatedAt[Newest(ms)]
    BY <1>1, <1>2, <2>1 DEF IsNewest
  <2> QED BY <2>1, <2>2 DEF MigrationAssumption
<1> QED BY <1>1, <1>2

LEMMA OwnText ==
  ASSUME NEW m \in ActiveMem
  PROVE  SameText(m) \in SUBSET Mem /\ m \in SameText(m)
BY DEF SameText, ActiveMem

--------------------------------------------------------------------------------
(* The second loop of migrateToV3 gives a memory its hash if it is the newest with
   its text: those seen before are newer, those to come are older. *)

LEMMA HashOfNewestRight ==
  ASSUME MigrationAssumption, rest \subseteq ActiveMem, rest # {},
         \A n \in ActiveMem \ rest, m \in rest : UpdatedAt[m] <= UpdatedAt[n]
  PROVE  LET m == Newest(rest)
         IN  /\ m \in rest
             /\ \A n \in rest : UpdatedAt[n] <= UpdatedAt[m]
             /\ HashOfNewest(m) = IF m = Newest(SameText(m)) THEN TextOf[m] ELSE NoHash
<1> DEFINE m == Newest(rest)
<1>1. IsNewest(m, rest) /\ m \in ActiveMem
  BY NewestDef DEF ActiveMem, IsNewest
<1>2. /\ IsNewest(Newest(SameText(m)), SameText(m))
      /\ IsNewest(m, SameText(m)) => m = Newest(SameText(m))
  BY <1>1, OwnText, NewestDef
<1> HIDE DEF m
<1>3. CASE TextOf[m] \in Seen
  <2>1. PICK n \in ActiveMem \ rest : TextOf[n] = TextOf[m]
    BY <1>3 DEF Seen
  <2>2. n \in SameText(m) /\ n # m /\ UpdatedAt[m] <= UpdatedAt[n]
    BY <1>1, <2>1 DEF SameText, IsNewest
  <2>3. m # Newest(SameText(m))
    <3>1. SUFFICES ASSUME m = Newest(SameText(m)) PROVE FALSE
      OBVIOUS
    <3>2. UpdatedAt[n] <= UpdatedAt[m]
      BY <1>2, <2>2, <3>1 DEF IsNewest
    <3>3. UpdatedAt[n] \in Nat /\ UpdatedAt[m] \in Nat /\ n \in Mem /\ m \in Mem
      BY <1>1, <2>1 DEF ActiveMem, MigrationAssumption
    <3>4. UpdatedAt[n] = UpdatedAt[m]
      BY <2>2, <3>2, <3>3
    <3> QED BY <2>2, <3>3, <3>4 DEF MigrationAssumption
  <2> QED BY <1>1, <1>3, <2>3 DEF HashOfNewest, IsNewest, m
<1>4. CASE TextOf[m] \notin Seen
  <2>1. SameText(m) \subseteq rest
    BY <1>4 DEF Seen, SameText
  <2>2. IsNewest(m, SameText(m))
    BY <1>1, <2>1, OwnText DEF IsNewest
  <2> QED BY <1>1, <1>2, <1>4, <2>2 DEF HashOfNewest, IsNewest, m
<1> QED BY <1>3, <1>4

\* Then no hash is used twice.
LEMMA NoDuplicates ==
  ASSUME MigrationAssumption, \A m \in ActiveMem : HashRight(m),
         NEW m \in ActiveMem, NEW n \in ActiveMem,
         file.hash[m] = file.hash[n], file.hash[m] # NoHash
  PROVE  m = n
<1>1. /\ file.hash[m] = TextOf[m] /\ m = Newest(SameText(m))
      /\ file.hash[n] = TextOf[n] /\ n = Newest(SameText(n))
  BY DEF HashRight
<1>2. SameText(m) = SameText(n)
  BY <1>1 DEF SameText
<1> QED BY <1>1, <1>2

--------------------------------------------------------------------------------
(* Every statement keeps the parts. *)

AllKept == FileTypes /\ Done /\ HistoryKept /\ HashesKept /\ KeywordsKept

LEMMA BeginUpgradeKept ==
  ASSUME MigrationAssumption, AllKept, BeginUpgrade, hurt' = {}
  PROVE  AllKept'
<1> USE DEF AllKept, FileTypes, Done, HistoryKept, HashesKept, KeywordsKept,
            HashSteps, HistorySteps, LaterSteps, LastSteps
<1>1. FileTypes'
  BY DEF BeginUpgrade, Created, FirstStep
<1>2. Done'
  BY DEF BeginUpgrade, Created, FirstStep
<1>3. HistoryKept'
  BY DEF BeginUpgrade, Created, FirstStep
<1>4. HashesKept'
  BY DEF BeginUpgrade, Created, FirstStep, HashRight
<1>5. KeywordsKept'
  BY DEF BeginUpgrade, Created, FirstStep
<1> QED BY <1>1, <1>2, <1>3, <1>4, <1>5

LEMMA ClearFtsKept ==
  ASSUME MigrationAssumption, AllKept, ClearFts, hurt' = {}
  PROVE  AllKept'
<1> USE DEF AllKept, FileTypes, Done, HistoryKept, HashesKept, KeywordsKept,
            HashSteps, HistorySteps, LaterSteps, LastSteps
<1>1. FileTypes'
  BY DEF ClearFts
<1>2. Done'
  BY DEF ClearFts
<1>3. HistoryKept'
  BY DEF ClearFts
<1>4. HashesKept'
  BY DEF ClearFts, HashRight
<1>5. KeywordsKept'
  BY DEF ClearFts
<1> QED BY <1>1, <1>2, <1>3, <1>4, <1>5

LEMMA FillFtsKept ==
  ASSUME MigrationAssumption, AllKept, FillFts, hurt' = {}
  PROVE  AllKept'
<1> USE DEF AllKept, FileTypes, Done, HistoryKept, HashesKept, KeywordsKept,
            HashSteps, HistorySteps, LaterSteps, LastSteps
<1>1. FileTypes'
  BY DEF FillFts
<1>2. Done'
  BY DEF FillFts
<1>3. HistoryKept'
  BY DEF FillFts
<1>4. HashesKept'
  BY DEF FillFts, HashRight
<1>5. KeywordsKept'
  <2>1. CASE rest = {}
    BY <2>1 DEF FillFts
  <2>2. CASE rest # {}
    <3>1. PICK m \in rest : /\ file' = [file EXCEPT !.fts = @ \cup {m}]
                            /\ rest' = rest \ {m} /\ step' = step
      BY <2>2 DEF FillFts
    <3>2. file'.fts = file.fts \cup {m} /\ step # "open"
      BY <3>1 DEF FillFts
    <3> QED BY <3>1, <3>2 DEF FillFts
  <2> QED BY <2>1, <2>2
<1> QED BY <1>1, <1>2, <1>3, <1>4, <1>5

LEMMA AddHashKept ==
  ASSUME MigrationAssumption, AllKept, AddHash, hurt' = {}
  PROVE  AllKept'
<1> USE DEF AllKept, FileTypes, Done, HistoryKept, HashesKept, KeywordsKept,
            HashSteps, HistorySteps, LaterSteps, LastSteps
<1>1. FileTypes'
  BY DEF AddHash
<1>2. Done'
  BY DEF AddHash
<1>3. HistoryKept'
  BY DEF AddHash
<1>4. HashesKept'
  BY DEF AddHash, HashRight
<1>5. KeywordsKept'
  BY DEF AddHash
<1> QED BY <1>1, <1>2, <1>3, <1>4, <1>5

LEMMA HashAllKept ==
  ASSUME MigrationAssumption, AllKept, HashAll, hurt' = {}
  PROVE  AllKept'
<1> USE DEF AllKept, FileTypes, Done, HistoryKept, HashesKept, KeywordsKept,
            HashSteps, HistorySteps, LaterSteps, LastSteps
<1>1. FileTypes'
  BY DEF HashAll, SetHash, HashRefused
<1>2. Done'
  BY DEF HashAll, SetHash, HashRefused
<1>3. HistoryKept'
  BY DEF HashAll, SetHash, HashRefused
<1>4. HashesKept'
  BY DEF HashAll, SetHash, HashRefused, HashRight
<1>5. KeywordsKept'
  BY DEF HashAll, SetHash, HashRefused
<1> QED BY <1>1, <1>2, <1>3, <1>4, <1>5

LEMMA HashNewestKept ==
  ASSUME MigrationAssumption, AllKept, HashNewest, hurt' = {}
  PROVE  AllKept'
<1> USE DEF AllKept, FileTypes, Done, HistoryKept, HashesKept, KeywordsKept,
            HashSteps, HistorySteps, LaterSteps, LastSteps
<1>1. CASE rest = {}
  BY <1>1 DEF HashNewest, HashRight
<1>2. CASE rest # {}
  <2> DEFINE m == Newest(rest)
             h == HashOfNewest(m)
  <2>1. /\ m \in rest /\ m \in Mem
        /\ \A n \in rest : UpdatedAt[n] <= UpdatedAt[m]
        /\ h = IF m = Newest(SameText(m)) THEN TextOf[m] ELSE NoHash
    BY <1>2, HashOfNewestRight DEF HashNewest, ActiveMem
  <2>2. /\ file' = [file EXCEPT !.hash[m] = h]
        /\ rest' = rest \ {m} /\ step = "hashNewest" /\ step' = "hashNewest"
    BY <1>2 DEF HashNewest, SetHash, HashRefused
  <2> HIDE DEF m, h
  <2>3. file' = [file EXCEPT !.hash = [file.hash EXCEPT ![m] = h]]
    BY <2>2
  <2>4. FileTypes' /\ Done' /\ HistoryKept' /\ KeywordsKept'
    BY <2>2, <2>3
  <2>5. /\ \A n \in ActiveMem \ {m} : file'.hash[n] = file.hash[n]
        /\ file'.hash[m] = h
    BY <2>1, <2>3 DEF ActiveMem
  <2>6. \A n \in ActiveMem \ rest' : HashRight(n)'
    BY <2>1, <2>2, <2>5 DEF HashRight
  <2>7. \A n \in ActiveMem \ rest' : \A k \in rest' : UpdatedAt[k] <= UpdatedAt[n]
    BY <2>1, <2>2
  <2> QED BY <2>2, <2>3, <2>4, <2>6, <2>7
<1> QED BY <1>1, <1>2

LEMMA CheckHistoryKept ==
  ASSUME MigrationAssumption, AllKept, CheckHistory, hurt' = {}
  PROVE  AllKept'
<1> USE DEF AllKept, FileTypes, Done, HistoryKept, HashesKept, KeywordsKept,
            HashSteps, HistorySteps, LaterSteps, LastSteps
<1>1. FileTypes'
  BY DEF CheckHistory, GoTo
<1>2. Done'
  BY DEF CheckHistory, GoTo
<1>3. HistoryKept'
  BY DEF CheckHistory, GoTo
<1>4. HashesKept'
  BY DEF CheckHistory, GoTo, HashRight
<1>5. KeywordsKept'
  BY DEF CheckHistory, GoTo
<1> QED BY <1>1, <1>2, <1>3, <1>4, <1>5

LEMMA CreateCopyKept ==
  ASSUME MigrationAssumption, AllKept, CreateCopy, hurt' = {}
  PROVE  AllKept'
<1> USE DEF AllKept, FileTypes, Done, HistoryKept, HashesKept, KeywordsKept,
            HashSteps, HistorySteps, LaterSteps, LastSteps
<1>1. FileTypes'
  BY DEF CreateCopy, GoTo
<1>2. Done'
  BY DEF CreateCopy, GoTo
<1>3. HistoryKept'
  BY DEF CreateCopy, GoTo
<1>4. HashesKept'
  BY DEF CreateCopy, GoTo, HashRight
<1>5. KeywordsKept'
  BY DEF CreateCopy, GoTo
<1> QED BY <1>1, <1>2, <1>3, <1>4, <1>5

LEMMA CopyHistoryKept ==
  ASSUME MigrationAssumption, AllKept, CopyHistory, hurt' = {}
  PROVE  AllKept'
<1> USE DEF AllKept, FileTypes, Done, HistoryKept, HashesKept, KeywordsKept,
            HashSteps, HistorySteps, LaterSteps, LastSteps
<1>1. FileTypes'
  BY DEF CopyHistory, GoTo
<1>2. Done'
  BY DEF CopyHistory, GoTo
<1>3. HistoryKept'
  BY DEF CopyHistory, GoTo
<1>4. HashesKept'
  BY DEF CopyHistory, GoTo, HashRight
<1>5. KeywordsKept'
  BY DEF CopyHistory, GoTo
<1> QED BY <1>1, <1>2, <1>3, <1>4, <1>5

LEMMA DropHistoryKept ==
  ASSUME MigrationAssumption, AllKept, DropHistory, hurt' = {}
  PROVE  AllKept'
<1> USE DEF AllKept, FileTypes, Done, HistoryKept, HashesKept, KeywordsKept,
            HashSteps, HistorySteps, LaterSteps, LastSteps
<1>1. FileTypes'
  BY DEF DropHistory, GoTo
<1>2. Done'
  BY DEF DropHistory, GoTo
<1>3. HistoryKept'
  BY DEF DropHistory, GoTo
<1>4. HashesKept'
  BY DEF DropHistory, GoTo, HashRight
<1>5. KeywordsKept'
  BY DEF DropHistory, GoTo
<1> QED BY <1>1, <1>2, <1>3, <1>4, <1>5

LEMMA RenameCopyKept ==
  ASSUME MigrationAssumption, AllKept, RenameCopy, hurt' = {}
  PROVE  AllKept'
<1> USE DEF AllKept, FileTypes, Done, HistoryKept, HashesKept, KeywordsKept,
            HashSteps, HistorySteps, LaterSteps, LastSteps
<1>1. FileTypes'
  BY DEF RenameCopy, GoTo
<1>2. Done'
  BY DEF RenameCopy, GoTo
<1>3. HistoryKept'
  BY DEF RenameCopy, GoTo
<1>4. HashesKept'
  BY DEF RenameCopy, GoTo, HashRight
<1>5. KeywordsKept'
  BY DEF RenameCopy, GoTo
<1> QED BY <1>1, <1>2, <1>3, <1>4, <1>5

LEMMA DropVectorsKept ==
  ASSUME MigrationAssumption, AllKept, DropVectors, hurt' = {}
  PROVE  AllKept'
<1> USE DEF AllKept, FileTypes, Done, HistoryKept, HashesKept, KeywordsKept,
            HashSteps, HistorySteps, LaterSteps, LastSteps
<1>1. FileTypes'
  BY DEF DropVectors, GoTo
<1>2. Done'
  BY DEF DropVectors, GoTo
<1>3. HistoryKept'
  BY DEF DropVectors, GoTo
<1>4. HashesKept'
  BY DEF DropVectors, GoTo, HashRight
<1>5. KeywordsKept'
  BY DEF DropVectors, GoTo
<1> QED BY <1>1, <1>2, <1>3, <1>4, <1>5

LEMMA AddVersionKept ==
  ASSUME MigrationAssumption, AllKept, AddVersion, hurt' = {}
  PROVE  AllKept'
<1> USE DEF AllKept, FileTypes, Done, HistoryKept, HashesKept, KeywordsKept,
            HashSteps, HistorySteps, LaterSteps, LastSteps
<1>1. FileTypes'
  BY DEF AddVersion, GoTo
<1>2. Done'
  BY DEF AddVersion, GoTo
<1>3. HistoryKept'
  BY DEF AddVersion, GoTo
<1>4. HashesKept'
  BY DEF AddVersion, GoTo, HashRight
<1>5. KeywordsKept'
  BY DEF AddVersion, GoTo
<1> QED BY <1>1, <1>2, <1>3, <1>4, <1>5

LEMMA CreateIndexesKept ==
  ASSUME MigrationAssumption, AllKept, CreateIndexes, hurt' = {}
  PROVE  AllKept'
<1> USE DEF AllKept, FileTypes, Done, HistoryKept, HashesKept, KeywordsKept,
            HashSteps, HistorySteps, LaterSteps, LastSteps
<1>1. FileTypes'
  <2>1. ~ \E m, n \in ActiveMem : m # n /\ file.hash[m] = file.hash[n] /\ file.hash[m] # NoHash
    BY NoDuplicates DEF CreateIndexes
  <2>2. /\ step' = "setVersion" /\ file' = [file EXCEPT !.uniqueIndex = TRUE]
        /\ rest' = rest
    BY <2>1 DEF CreateIndexes, GoTo
  <2>3. file'.uniqueIndex = TRUE /\ file'.hash = file.hash
    BY <2>2
  <2> QED BY <2>2, <2>3
<1>2. Done'
  BY DEF CreateIndexes, GoTo
<1>3. HistoryKept'
  BY DEF CreateIndexes, GoTo
<1>4. HashesKept'
  BY DEF CreateIndexes, GoTo, HashRight
<1>5. KeywordsKept'
  BY DEF CreateIndexes, GoTo
<1> QED BY <1>1, <1>2, <1>3, <1>4, <1>5

LEMMA SetVersionKept ==
  ASSUME MigrationAssumption, AllKept, SetVersion, hurt' = {}
  PROVE  AllKept'
<1> USE DEF AllKept, FileTypes, Done, HistoryKept, HashesKept, KeywordsKept,
            HashSteps, HistorySteps, LaterSteps, LastSteps
<1>1. FileTypes'
  BY DEF SetVersion, GoTo
<1>2. Done'
  BY DEF SetVersion, GoTo
<1>3. HistoryKept'
  BY DEF SetVersion, GoTo
<1>4. HashesKept'
  BY DEF SetVersion, GoTo, HashRight
<1>5. KeywordsKept'
  BY DEF SetVersion, GoTo
<1> QED BY <1>1, <1>2, <1>3, <1>4, <1>5

LEMMA CompareFtsKept ==
  ASSUME MigrationAssumption, AllKept, CompareFts, hurt' = {}
  PROVE  AllKept'
<1> USE DEF AllKept, FileTypes, Done, HistoryKept, HashesKept, KeywordsKept,
            HashSteps, HistorySteps, LaterSteps, LastSteps
<1>1. FileTypes'
  BY DEF CompareFts, GoTo
<1>2. Done'
  BY DEF CompareFts, GoTo
<1>3. HistoryKept'
  BY DEF CompareFts, GoTo
<1>4. HashesKept'
  BY DEF CompareFts, GoTo, HashRight
<1>5. KeywordsKept'
  <2>1. IsFiniteSet(ActiveMem) /\ file.fts \subseteq ActiveMem
    BY FS_Subset DEF ActiveMem, MigrationAssumption
  <2>2. Cardinality(file.fts) = Cardinality(ActiveMem) => file.fts = ActiveMem
    BY <2>1, FS_Subset
  <2> QED BY <2>2 DEF CompareFts, GoTo
<1> QED BY <1>1, <1>2, <1>3, <1>4, <1>5

LEMMA UpgradeCrashKept ==
  ASSUME MigrationAssumption, AllKept, UpgradeCrash, hurt' = {}
  PROVE  AllKept'
<1> USE DEF AllKept, FileTypes, Done, HistoryKept, HashesKept, KeywordsKept,
            HashSteps, HistorySteps, LaterSteps, LastSteps
<1>1. FileTypes'
  BY DEF UpgradeCrash, Window
<1>2. Done'
  BY DEF UpgradeCrash, Window
<1>3. HistoryKept'
  BY DEF UpgradeCrash, Window
<1>4. HashesKept'
  BY DEF UpgradeCrash, Window, HashRight
<1>5. KeywordsKept'
  BY DEF UpgradeCrash, Window
<1> QED BY <1>1, <1>2, <1>3, <1>4, <1>5

--------------------------------------------------------------------------------
(* The invariant *)

\* hurt only grows: a step that ends unharmed began so.
LEMMA MigrationStep ==
  ASSUME MigrationAssumption, MigrationInv, [MigrationNext]_migrationVars
  PROVE  MigrationInv'
<1> SUFFICES ASSUME hurt' = {} PROVE AllKept'
  BY DEF MigrationInv, AllKept
<1>1. hurt = {}
  BY DEF MigrationNext, migrationVars, BeginUpgrade, ClearFts, FillFts, AddHash, HashAll,
         HashNewest, CheckHistory, CreateCopy, CopyHistory, DropHistory, RenameCopy,
         DropVectors, AddVersion, CreateIndexes, SetVersion, CompareFts, UpgradeCrash, GoTo
<1>2. AllKept
  BY <1>1 DEF MigrationInv, AllKept
<1>3. CASE UNCHANGED migrationVars
  BY <1>2, <1>3 DEF migrationVars, AllKept, FileTypes, Done, HistoryKept, HashesKept,
                    KeywordsKept, HashRight
<1> QED
  BY <1>2, <1>3, BeginUpgradeKept, ClearFtsKept, FillFtsKept, AddHashKept, HashAllKept,
     HashNewestKept, CheckHistoryKept, CreateCopyKept, CopyHistoryKept, DropHistoryKept,
     RenameCopyKept, DropVectorsKept, AddVersionKept, CreateIndexesKept, SetVersionKept,
     CompareFtsKept, UpgradeCrashKept DEF MigrationNext

LEMMA MigrationStart ==
  ASSUME MigrationAssumption, MigrationInit
  PROVE  MigrationInv
<1>1. PICK v \in 2 .. 4, unindexed \in SUBSET ActiveMem : file = OldFile(v, unindexed)
  BY DEF MigrationInit
<1>2. ASSUME v >= 3, NEW m \in ActiveMem
      PROVE  HashRight(m)
  <2>1. file.hash[m] = IF IsNewest(m, SameText(m)) THEN TextOf[m] ELSE NoHash
    BY <1>1, <1>2 DEF OldFile, IsNewest, SameText, ActiveMem
  <2>2. IsNewest(m, SameText(m)) <=> m = Newest(SameText(m))
    BY OwnText, NewestDef
  <2> QED BY <2>1, <2>2 DEF HashRight
<1>3. FileTypes
  BY <1>1 DEF MigrationInit, OldFile, FileTypes, ActiveMem
<1>4. Done /\ HistoryKept /\ KeywordsKept
  <2>1. /\ file.version = v /\ file.history = IF v < 3 THEN "old" ELSE "updated"
        /\ file.events = Mem /\ file.copied = {} /\ (file.hashColumn <=> v >= 3)
        /\ (file.uniqueIndex <=> v >= 3)
        /\ file.vectors = IF v < 4 THEN Mem ELSE ActiveMem
        /\ step = "closed"
    BY <1>1 DEF MigrationInit, OldFile
  <2>2. Done
    BY <2>1 DEF Done, ActiveMem, HashSteps, HistorySteps, LaterSteps, LastSteps
  <2>3. HistoryKept /\ KeywordsKept
    BY <2>1 DEF HistoryKept, KeywordsKept, LaterSteps
  <2> QED BY <2>2, <2>3
<1>5. HashesKept
  BY <1>1, <1>2 DEF MigrationInit, OldFile, HashesKept, HistorySteps, LaterSteps
<1> QED BY <1>3, <1>4, <1>5 DEF MigrationInv

LEMMA AllKeptIsSound ==
  ASSUME MigrationAssumption, MigrationInv
  PROVE  UpgradeSurvivesCrashes
<1> SUFFICES ASSUME hurt = {} PROVE step # "failed" /\ (step = "open" => Sound)
  BY DEF UpgradeSurvivesCrashes
<1>1. FileTypes /\ Done /\ HistoryKept /\ HashesKept /\ KeywordsKept
  BY DEF MigrationInv
<1>2. step # "failed"
  BY <1>1 DEF FileTypes, HashSteps, HistorySteps, LaterSteps, LastSteps
<1>3. ASSUME step = "open" PROVE Sound
  <2>1. file.version = 5
    BY <1>1, <1>3 DEF Done, LastSteps
  <2>2. \A m \in ActiveMem : HashRight(m)
    BY <1>1, <2>1 DEF HashesKept
  <2>3. file.hashColumn /\ file.rowVersion /\ file.uniqueIndex /\ file.vectors \cap Archived = {}
    BY <1>1, <1>3, <2>1 DEF Done, LastSteps, FileTypes
  <2>4. file.history = "updated" /\ file.events = Mem /\ file.fts = ActiveMem
    BY <1>1, <1>3, <2>1 DEF HistoryKept, KeywordsKept
  <2> QED BY <2>1, <2>2, <2>3, <2>4 DEF Sound, HashRight, SameText
<1> QED BY <1>2, <1>3

\* However often the upgrade of a file of version 2, 3 or 4 is killed between two of
\* its statements and started again, no later open fails and one that comes to its
\* end leaves the file complete: unless a crash fell into one of the four windows.
THEOREM UpgradeIsRepeatable == MigrationSpec => []UpgradeSurvivesCrashes
<1>1. MigrationInit => MigrationInv
  BY MigrationAssumption, MigrationStart
<1>2. MigrationInv /\ [MigrationNext]_migrationVars => MigrationInv'
  BY MigrationAssumption, MigrationStep
<1>3. MigrationInv => UpgradeSurvivesCrashes
  BY MigrationAssumption, AllKeptIsSound
<1> QED BY <1>1, <1>2, <1>3, PTL DEF MigrationSpec

================================================================================
