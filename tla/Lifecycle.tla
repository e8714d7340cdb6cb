------------------------------- MODULE Lifecycle ------------------------------
(***************************************************************************)
(* The life of an instance over a SQLite file: ready(), close(),           *)
(* checkpoint(), deleteCheckpoint(), rollback(), export() and import() of  *)
(* src/core/wolbarg.ts, with the file operations of                        *)
(* sqliteCheckpointProvider.ts and of src/memory/transfer.ts.              *)
(*                                                                         *)
(* What a call does between two awaits is not interrupted by other calls,  *)
(* but the process may be killed after each file operation: sync names the *)
(* call that is inside such a stretch.  A database is the set of memories  *)
(* in it, of which the newest may be in its WAL only.                      *)
(***************************************************************************)
EXTENDS Naturals

CONSTANTS
  MaxWrites,    \* bound on the memories remembered
  MaxKills      \* bound on the crashes

ASSUME LifecycleAssumption == MaxWrites \in Nat /\ MaxKills \in Nat

VARIABLES
  disk,         \* the files
  storageOpen,  \* the storage has its connection open
  facade,       \* configured, initialized, and the step of boot() and close()
  transfer,     \* a call of rollback() or import()
  saver,        \* a call of checkpoint(), deleteCheckpoint() or export()
  sync,         \* which of these two is between two file operations
  writes, kills,
  promised,     \* history: what the calls that returned promise of the database
  meant,        \* history: the memories there were when checkpoint() copied
  lagged,       \* history: a reader held the WAL back when checkpoint() copied
  windows       \* history: where a crash or a failed copy left no database

lifeVars == <<disk, storageOpen, facade, transfer, saver, sync, writes, kills,
              promised, meant, lagged, windows>>

counts == <<writes, kills>>
history == <<promised, meant, lagged, windows>>

NoFile == [there |-> FALSE, main |-> {}, wal |-> {}, whole |-> TRUE]
TornFile == [NoFile EXCEPT !.there = TRUE, !.whole = FALSE]
FileOf(ms) == [NoFile EXCEPT !.there = TRUE, !.main = ms]
Content(f) == f.main \cup f.wal

NoCall == [op |-> "none", at |-> "idle", copy |-> NoFile]

\* PRAGMA wal_checkpoint(TRUNCATE): the WAL moves to the main file, or, when a reader
\* of another process holds it, stays.
Checkpointed(f, held) == IF held THEN f ELSE [f EXCEPT !.main = Content(f), !.wal = {}]

\* safeSqliteBackup and copySqlite copy the main file alone; opening a source that
\* is missing creates it, empty.
Backup(f, held) == FileOf(Checkpointed(f, held).main)

Free == sync = "none"

Idle == transfer.op = "none" /\ saver.op = "none"

\* A call that has passed requireReady().
Ready == Free /\ facade.initialized /\ facade.at = "idle"

--------------------------------------------------------------------------------
(* boot() and close() *)

\* SqliteStorageProvider.open creates a missing file; the integrity check refuses
\* a torn one.
OpenStorage ==
  LET f == IF disk.target.there THEN disk.target ELSE FileOf({})
  IN  disk' = [disk EXCEPT !.target = f] /\ storageOpen' = f.whole

CloseConnection ==
  /\ storageOpen' = FALSE
  /\ disk' = IF storageOpen THEN [disk EXCEPT !.target = Checkpointed(@, FALSE)] ELSE disk

BootStorage ==
  /\ Free /\ facade.configured /\ ~facade.initialized /\ facade.at = "idle"
  /\ OpenStorage
  /\ facade' = IF storageOpen' THEN [facade EXCEPT !.at = "booting"] ELSE facade
  /\ UNCHANGED <<transfer, saver, sync, counts, history>>

\* Telemetry, the checkpoint provider, the dimensions and the vector schema.
BootEnds ==
  /\ Free /\ facade.at = "booting"
  /\ facade' = [facade EXCEPT !.at = "idle", !.initialized = TRUE]
  /\ UNCHANGED <<disk, storageOpen, transfer, saver, sync, counts, history>>

\* One of them fails: the storage is closed, and a later call boots again.
BootFails ==
  /\ Free /\ facade.at = "booting"
  /\ CloseConnection
  /\ facade' = [facade EXCEPT !.at = "idle"]
  /\ UNCHANGED <<transfer, saver, sync, counts, history>>

\* close() closes the storage after the other providers, and forgets them.
CloseStorage ==
  /\ Free /\ Idle /\ facade.configured /\ facade.at = "idle"
  /\ CloseConnection
  /\ facade' = [facade EXCEPT !.at = "closing"]
  /\ UNCHANGED <<transfer, saver, sync, counts, history>>

CloseEnds ==
  /\ Free /\ facade.at = "closing"
  /\ facade' = [configured |-> FALSE, initialized |-> FALSE, at |-> "idle"]
  /\ UNCHANGED <<disk, storageOpen, transfer, saver, sync, counts, history>>

Remember ==
  /\ Ready /\ storageOpen /\ writes < MaxWrites
  /\ writes' = writes + 1
  /\ disk' = [disk EXCEPT !.target.wal = @ \cup {writes + 1}]
  /\ promised' = promised \cup {writes + 1}
  /\ UNCHANGED <<storageOpen, facade, transfer, saver, sync, kills, meant, lagged, windows>>

--------------------------------------------------------------------------------
(* checkpoint(), deleteCheckpoint() and export() *)

\* assertSqliteOwnedByOrganization, and "checkpoints are never overwritten".
SaverStarts(op) ==
  /\ Ready /\ saver.op = "none"
  /\ op \in {"checkpoint", "export"} => disk.target.there
  /\ op = "checkpoint" => ~disk.meta
  /\ op = "delete" => disk.meta \/ disk.snapshot.there
  /\ saver' = [NoCall EXCEPT !.op = op, !.at = "start"]
  /\ UNCHANGED <<disk, storageOpen, facade, transfer, sync, counts, history>>

\* The backup, of checkpoint() to a temporary file, of export() to the bundle.
Saves ==
  /\ Free /\ saver.at = "start" /\ saver.op \in {"checkpoint", "export"}
  /\ \E held \in BOOLEAN :
       LET copy == Backup(disk.target, held)
       IN  /\ saver' = [saver EXCEPT !.at = "copied", !.copy = copy]
           /\ disk' = [disk EXCEPT
                !.target = IF @.there THEN Checkpointed(@, held) ELSE FileOf({}),
                !.bundle = IF saver.op = "export" THEN copy ELSE @]
           /\ lagged' = IF saver.op = "checkpoint" THEN held ELSE lagged
  /\ meant' = IF saver.op = "checkpoint" THEN Content(disk.target) ELSE meant
  /\ UNCHANGED <<storageOpen, facade, transfer, sync, counts, promised, windows>>

\* export(): the manifest.
Manifest ==
  /\ Free /\ saver.at = "copied" /\ saver.op = "export"
  /\ disk' = [disk EXCEPT !.manifest = TRUE]
  /\ saver' = NoCall
  /\ UNCHANGED <<storageOpen, facade, transfer, sync, counts, history>>

\* Faulty variant: the metadata come before the snapshot.
Snapshot_MetaFirst ==
  /\ Free /\ saver.at = "copied" /\ saver.op = "checkpoint"
  /\ disk' = [disk EXCEPT !.meta = TRUE]
  /\ saver' = [saver EXCEPT !.at = "renamed"] /\ sync' = "saver"
  /\ UNCHANGED <<storageOpen, facade, transfer, counts, history>>

\* checkpoint(): a snapshot without metadata is replaced, then the metadata written.
Snapshot ==
  /\ Free /\ saver.at = "copied" /\ saver.op = "checkpoint"
  /\ disk' = [disk EXCEPT !.snapshot = saver.copy]
  /\ saver' = [saver EXCEPT !.at = "renamed"] /\ sync' = "saver"
  /\ UNCHANGED <<storageOpen, facade, transfer, counts, history>>

WriteMeta ==
  /\ saver.at = "renamed" /\ sync = "saver"
  /\ disk' = [disk EXCEPT !.meta = TRUE]
  /\ saver' = NoCall /\ sync' = "none"
  /\ UNCHANGED <<storageOpen, facade, transfer, counts, history>>

\* deleteCheckpoint(): the metadata, then the snapshot.
DeleteMeta ==
  /\ Free /\ saver.op = "delete" /\ saver.at = "start"
  /\ disk' = [disk EXCEPT !.meta = FALSE]
  /\ saver' = [saver EXCEPT !.at = "unlisted"] /\ sync' = "saver"
  /\ UNCHANGED <<storageOpen, facade, transfer, counts, history>>

DeleteSnapshot ==
  /\ saver.at = "unlisted" /\ sync = "saver"
  /\ disk' = [disk EXCEPT !.snapshot = NoFile]
  /\ saver' = NoCall /\ sync' = "none"
  /\ UNCHANGED <<storageOpen, facade, transfer, counts, history>>

--------------------------------------------------------------------------------
(* rollback() and import(); one at a time *)

\* rollback() looks for the checkpoint before it closes the storage; import()
\* closes it first.
TransferStarts(op) ==
  /\ Ready /\ transfer.op = "none"
  /\ op = "rollback" => disk.meta /\ disk.target.there
  /\ transfer' = [NoCall EXCEPT !.op = op, !.at = "closed"]
  /\ CloseConnection
  /\ UNCHANGED <<facade, saver, sync, counts, history>>

\* The target is removed with its WAL.
Removed == disk' = [disk EXCEPT !.target = NoFile]

Fails == transfer' = [transfer EXCEPT !.at = "failed"] /\ sync' = "none"

\* The provider looks for the checkpoint again, and then removes the target.
RollbackRemoves ==
  /\ Free /\ transfer.op = "rollback" /\ transfer.at = "closed"
  /\ IF disk.meta
     THEN Removed /\ sync' = "transfer" /\ transfer' = [transfer EXCEPT !.at = "removed"]
     ELSE Fails /\ UNCHANGED disk
  /\ UNCHANGED <<storageOpen, facade, saver, counts, history>>

RollbackCopies ==
  /\ transfer.op = "rollback" /\ transfer.at = "removed" /\ sync = "transfer"
  /\ disk' = [disk EXCEPT !.target = Backup(disk.snapshot, FALSE)]
  /\ promised' = Content(disk.snapshot)
  /\ transfer' = [transfer EXCEPT !.at = "swapped"] /\ sync' = "none"
  /\ UNCHANGED <<storageOpen, facade, saver, counts, meant, lagged, windows>>

\* The copy fails half-way.
RollbackCopyFails ==
  /\ transfer.op = "rollback" /\ transfer.at = "removed" /\ sync = "transfer"
  /\ \E f \in {NoFile, TornFile} : disk' = [disk EXCEPT !.target = f]
  /\ Fails
  /\ windows' = windows \cup {"restore"}
  /\ UNCHANGED <<storageOpen, facade, saver, counts, promised, meant, lagged>>

\* importFrom refuses a bundle without manifest, or copies it beside the target.
ImportCopies ==
  /\ Free /\ transfer.op = "import" /\ transfer.at = "closed"
  /\ IF disk.bundle.there /\ disk.manifest
     THEN /\ disk' = [disk EXCEPT !.tmp = Backup(disk.bundle, FALSE)]
          /\ transfer' = [transfer EXCEPT !.at = "copied"] /\ UNCHANGED sync
     ELSE Fails /\ UNCHANGED disk
  /\ UNCHANGED <<storageOpen, facade, saver, counts, history>>

\* Faulty variant: the bundle is copied over the target.
ImportCopyFails_InPlace ==
  /\ Free /\ transfer.op = "import" /\ transfer.at = "closed"
  /\ disk.bundle.there /\ disk.manifest
  /\ \E f \in {NoFile, TornFile} : disk' = [disk EXCEPT !.target = f]
  /\ Fails
  /\ UNCHANGED <<storageOpen, facade, saver, counts, history>>

ImportCopyFails ==
  /\ Free /\ transfer.op = "import" /\ transfer.at = "closed"
  /\ disk.bundle.there /\ disk.manifest
  /\ \E f \in {NoFile, TornFile} : disk' = [disk EXCEPT !.tmp = f]
  /\ Fails
  /\ UNCHANGED <<storageOpen, facade, saver, counts, history>>

ImportRemoves ==
  /\ Free /\ transfer.op = "import" /\ transfer.at = "copied"
  /\ Removed
  /\ sync' = "transfer" /\ transfer' = [transfer EXCEPT !.at = "removed"]
  /\ UNCHANGED <<storageOpen, facade, saver, counts, history>>

ImportRenames ==
  /\ transfer.op = "import" /\ transfer.at = "removed" /\ sync = "transfer"
  /\ disk' = [disk EXCEPT !.target = disk.tmp, !.tmp = NoFile]
  /\ promised' = Content(disk.tmp)
  /\ transfer' = [transfer EXCEPT !.at = "swapped"] /\ sync' = "none"
  /\ UNCHANGED <<storageOpen, facade, saver, counts, meant, lagged, windows>>

\* The storage is opened again, after a failure by reopenStorageAfterTransferFailure.
Reopen ==
  /\ Free /\ transfer.at \in {"swapped", "failed"}
  /\ OpenStorage
  /\ transfer' = NoCall
  /\ UNCHANGED <<facade, saver, sync, counts, history>>

--------------------------------------------------------------------------------
(* The process, and another one *)

\* The process is killed, and started again.
Kill ==
  /\ kills < MaxKills
  /\ kills' = kills + 1
  /\ storageOpen' = FALSE
  /\ facade' = [configured |-> TRUE, initialized |-> FALSE, at |-> "idle"]
  /\ transfer' = NoCall /\ saver' = NoCall /\ sync' = "none"
  /\ windows' = windows \cup
       (IF transfer.at = "removed"
        THEN {IF transfer.op = "import" THEN "swap" ELSE "restore"} ELSE {})
  /\ UNCHANGED <<disk, writes, promised, meant, lagged>>

LifeInit ==
  /\ disk = [target |-> NoFile, tmp |-> NoFile, snapshot |-> NoFile, meta |-> FALSE,
             bundle |-> NoFile, manifest |-> FALSE]
  /\ storageOpen = FALSE
  /\ facade = [configured |-> TRUE, initialized |-> FALSE, at |-> "idle"]
  /\ transfer = NoCall /\ saver = NoCall /\ sync = "none"
  /\ writes = 0 /\ kills = 0
  /\ promised = {} /\ meant = {} /\ lagged = FALSE /\ windows = {}

LifeNext ==
  \/ BootStorage \/ BootEnds \/ BootFails \/ CloseStorage \/ CloseEnds \/ Remember
  \/ \E op \in {"checkpoint", "delete", "export"} : SaverStarts(op)
  \/ Saves \/ Manifest \/ Snapshot \/ WriteMeta \/ DeleteMeta \/ DeleteSnapshot
  \/ \E op \in {"rollback", "import"} : TransferStarts(op)
  \/ RollbackRemoves \/ RollbackCopies \/ RollbackCopyFails
  \/ ImportCopies \/ ImportCopyFails \/ ImportRemoves \/ ImportRenames \/ Reopen
  \/ Kill

--------------------------------------------------------------------------------
(* Properties *)

\* The open database holds what the calls that returned promise, across crashes and
\* failed transfers: every acknowledged memory, or exactly the checkpoint or bundle
\* that replaced it.  The exceptions are two moments at which no file has it: an
\* import() killed between removing the target and the rename, and a rollback()
\* killed, or failing to copy, after it removed the target.
DatabaseAsPromised == storageOpen /\ windows = {} => Content(disk.target) = promised

\* A checkpoint that is listed has its snapshot, whole, with every memory there was
\* when it was taken, unless a reader of another process held the WAL back.
CheckpointsAreWhole ==
  disk.meta => /\ disk.snapshot.there /\ disk.snapshot.whole
               /\ lagged \/ Content(disk.snapshot) = meant

================================================================================
