------------------------------ MODULE StateSync ------------------------------
(***************************************************************************)
(* Backup and restore of one instance's workspace: BaseBackend, the local  *)
(* backend, SyncScheduler and StateSyncService.  The workspace is read and *)
(* written file by file while the agent edits it; the store keeps the data *)
(* object and its metadata as two files written one after the other.  An   *)
(* archive is what it contains, and its checksum is the archive itself.    *)
(***************************************************************************)
EXTENDS Naturals

CONSTANTS
  SyncFiles,     \* paths in the workspace
  SyncVersions,  \* contents a file may have
  SyncCalls,     \* backup() and restore() calls that can overlap
  Missing,       \* no file, no object
  SyncBudget     \* how often each step of the environment may be taken

SyncKinds == {"edit", "call", "fault", "admin"}

ASSUME SyncAssumption ==
  /\ Missing \notin SyncVersions
  /\ SyncBudget \in [SyncKinds -> Nat]

VARIABLES
  files,      \* the workspace
  object,     \* state.dat
  meta,       \* the checksum in state.meta.json
  sync,       \* the calls in flight
  scheduler,  \* SyncScheduler: is its timer set, is the instance registered
  packed,     \* history: archives whose metadata has been written
  calm,       \* history: no backups overlapped and none was cut off
  syncLeft

syncVars == <<files, object, meta, sync, scheduler, packed, calm, syncLeft>>

Content == SyncVersions \cup {Missing}
Empty == [f \in SyncFiles |-> Missing]
Archives == [SyncFiles -> Content]
NoObject == Missing

SyncIdle == [pc |-> "idle", force |-> FALSE, todo |-> {}, got |-> Empty, sum |-> NoObject]

SyncTypeOK ==
  /\ files \in Archives
  /\ object \in Archives \cup {NoObject}
  /\ meta \in Archives \cup {NoObject}
  /\ sync \in [SyncCalls ->
       [pc : {"idle", "read", "compare", "upload", "save", "lookup", "download", "unpack"},
        force : BOOLEAN, todo : SUBSET SyncFiles, got : Archives,
        sum : Archives \cup {NoObject}]]
  /\ scheduler \in [running : BOOLEAN, registered : BOOLEAN]
  /\ packed \in SUBSET Archives
  /\ calm \in BOOLEAN
  /\ syncLeft \in [SyncKinds -> Nat]

SyncSpend(k) == syncLeft[k] > 0 /\ syncLeft' = [syncLeft EXCEPT ![k] = @ - 1]

Present(archive) == {f \in SyncFiles : archive[f] # Missing}
BackingUp == {c \in SyncCalls : sync[c].pc \in {"read", "compare", "upload", "save"}}

Go(c, pc) == sync' = [sync EXCEPT ![c].pc = pc]
Return(c) == sync' = [sync EXCEPT ![c] = SyncIdle]

-----------------------------------------------------------------------------
(* BaseBackend.backup *)

\* readdir lists the workspace; the files are read one by one.
Backup(c, force) ==
  /\ sync[c] = SyncIdle
  /\ sync' = [sync EXCEPT ![c].pc = "read", ![c].force = force,
                          ![c].todo = Present(files)]
  /\ calm' = (calm /\ BackingUp = {})
  /\ UNCHANGED <<files, object, meta, scheduler, packed>>

\* A listed file that has gone raises ENOENT, which ends the walk with what was
\* read so far.
ReadFile(c, f) ==
  /\ sync[c].pc = "read" /\ f \in sync[c].todo
  /\ sync' = [sync EXCEPT ![c].todo = IF files[f] = Missing THEN {} ELSE @ \ {f},
                          ![c].got[f] = files[f]]
  /\ UNCHANGED <<files, object, meta, scheduler, packed, calm, syncLeft>>

\* Nothing to back up; or packed and hashed; a forced call asks no metadata.
Pack(c) ==
  /\ sync[c].pc = "read" /\ sync[c].todo = {}
  /\ CASE Present(sync[c].got) = {} -> Return(c)
       [] sync[c].force -> Go(c, "upload")
       [] OTHER -> Go(c, "compare")
  /\ UNCHANGED <<files, object, meta, scheduler, packed, calm, syncLeft>>

\* Faulty variant: any earlier backup will do.
CompareAny(c) ==
  /\ sync[c].pc = "compare"
  /\ IF meta # NoObject THEN Return(c) ELSE Go(c, "upload")
  /\ UNCHANGED <<files, object, meta, scheduler, packed, calm, syncLeft>>

Compare(c) ==
  /\ sync[c].pc = "compare"
  /\ IF meta = sync[c].got THEN Return(c) ELSE Go(c, "upload")
  /\ UNCHANGED <<files, object, meta, scheduler, packed, calm, syncLeft>>

UploadData(c) ==
  /\ sync[c].pc = "upload"
  /\ object' = sync[c].got
  /\ Go(c, "save")
  /\ UNCHANGED <<files, meta, scheduler, packed, calm, syncLeft>>

SaveMetadata(c) ==
  /\ sync[c].pc = "save"
  /\ meta' = sync[c].got
  /\ packed' = packed \cup {sync[c].got}
  /\ Return(c)
  /\ UNCHANGED <<files, object, scheduler, calm, syncLeft>>

-----------------------------------------------------------------------------
(* BaseBackend.restore; its two callers force it *)

Restore(c) ==
  /\ SyncSpend("call")
  /\ sync[c] = SyncIdle
  /\ Go(c, "lookup")
  /\ UNCHANGED <<files, object, meta, scheduler, packed, calm>>

LookUp(c) ==
  /\ sync[c].pc = "lookup"
  /\ IF meta = NoObject THEN Return(c)
     ELSE sync' = [sync EXCEPT ![c].pc = "download", ![c].sum = meta]
  /\ UNCHANGED <<files, object, meta, scheduler, packed, calm, syncLeft>>

\* Faulty variant: the checksum is not compared.
DownloadUnchecked(c) ==
  /\ sync[c].pc = "download"
  /\ IF object = NoObject THEN Return(c)
     ELSE sync' = [sync EXCEPT ![c].pc = "unpack", ![c].got = object, ![c].todo = Present(object)]
  /\ UNCHANGED <<files, object, meta, scheduler, packed, calm, syncLeft>>

Download(c) ==
  /\ sync[c].pc = "download"
  /\ IF object = NoObject \/ object # sync[c].sum THEN Return(c)
     ELSE sync' = [sync EXCEPT ![c].pc = "unpack", ![c].got = object, ![c].todo = Present(object)]
  /\ UNCHANGED <<files, object, meta, scheduler, packed, calm, syncLeft>>

\* Files that are not in the archive stay.
Unpack(c, f) ==
  /\ sync[c].pc = "unpack" /\ f \in sync[c].todo
  /\ files' = [files EXCEPT ![f] = sync[c].got[f]]
  /\ IF sync[c].todo = {f} THEN Return(c) ELSE sync' = [sync EXCEPT ![c].todo = @ \ {f}]
  /\ UNCHANGED <<object, meta, scheduler, packed, calm, syncLeft>>

\* Whatever throws becomes an error result; nothing is undone.
SyncThrows(c) ==
  /\ SyncSpend("fault")
  /\ sync[c].pc # "idle"
  /\ Return(c)
  /\ calm' = (calm /\ c \notin BackingUp)
  /\ UNCHANGED <<files, object, meta, scheduler, packed>>

-----------------------------------------------------------------------------
(* StateSyncService and SyncScheduler *)

BackupInstance(c) == SyncSpend("call") /\ Backup(c, TRUE)

\* A cycle backs up what is registered, without force; setInterval does not wait
\* for the last cycle.
RunBackupCycle(c) ==
  /\ SyncSpend("call")
  /\ scheduler.running /\ scheduler.registered
  /\ Backup(c, FALSE)

SetScheduler(s) ==
  /\ SyncSpend("admin")
  /\ scheduler' = s
  /\ UNCHANGED <<files, object, meta, sync, packed, calm>>

RegisterInstance == ~scheduler.registered /\ SetScheduler([scheduler EXCEPT !.registered = TRUE])
UnregisterInstance == scheduler.registered /\ SetScheduler([scheduler EXCEPT !.registered = FALSE])
StartScheduler == ~scheduler.running /\ SetScheduler([scheduler EXCEPT !.running = TRUE])
StopScheduler == scheduler.running /\ SetScheduler([scheduler EXCEPT !.running = FALSE])

-----------------------------------------------------------------------------
(* The world *)

Edit(f, v) ==
  /\ SyncSpend("edit")
  /\ files[f] # v
  /\ files' = [files EXCEPT ![f] = v]
  /\ UNCHANGED <<object, meta, sync, scheduler, packed, calm>>

\* The process dies: the calls and the scheduler go with it.
SyncCrash ==
  /\ SyncSpend("fault")
  /\ sync' = [c \in SyncCalls |-> SyncIdle]
  /\ scheduler' = [running |-> FALSE, registered |-> FALSE]
  /\ calm' = (calm /\ BackingUp = {})
  /\ UNCHANGED <<files, object, meta, packed>>

-----------------------------------------------------------------------------
SyncInit ==
  /\ files \in [SyncFiles -> SyncVersions]
  /\ object = NoObject /\ meta = NoObject
  /\ sync = [c \in SyncCalls |-> SyncIdle]
  /\ scheduler = [running |-> FALSE, registered |-> FALSE]
  /\ packed = {}
  /\ calm = TRUE
  /\ syncLeft = SyncBudget

SyncNext ==
  \/ \E c \in SyncCalls :
       \/ BackupInstance(c) \/ RunBackupCycle(c) \/ Pack(c) \/ Compare(c)
       \/ UploadData(c) \/ SaveMetadata(c)
       \/ Restore(c) \/ LookUp(c) \/ Download(c) \/ SyncThrows(c)
  \/ \E c \in SyncCalls, f \in SyncFiles : ReadFile(c, f) \/ Unpack(c, f)
  \/ \E f \in SyncFiles, v \in Content : Edit(f, v)
  \/ RegisterInstance \/ UnregisterInstance \/ StartScheduler \/ StopScheduler
  \/ SyncCrash

SyncSpec == SyncInit /\ [][SyncNext]_syncVars

-----------------------------------------------------------------------------
(* Properties *)

\* What a restore writes into the workspace is one archive, of which a backup
\* also wrote the metadata: not data whose backup failed, crashed or is still
\* under way, and not the data of one backup under the checksum of another.
RestoresOnlyConfirmed ==
  \A c \in SyncCalls : sync[c].pc = "unpack" => sync[c].got \in packed

\* As long as backups neither overlapped nor were cut off, every backup that ends
\* well, skipped as unchanged or not, leaves in the store, data and metadata, what
\* it read.
BackupLeavesWhatItRead ==
  [][\A c \in SyncCalls :
       calm' /\ sync[c].pc \in {"compare", "save"} /\ sync'[c].pc = "idle"
         => object' = sync[c].got /\ meta' = sync[c].got]_syncVars
=============================================================================
