--------------------------- MODULE BotStateProofs ---------------------------
(* Theorems about what the API keeps of a bot beside the bot itself: backups of *)
(* its files, the pairings of its channels, the progress of its deployment.     *)
EXTENDS StateSync, Pairing, Provisioning, TLAPS

-----------------------------------------------------------------------------
(* StateSync: for any files, contents and calls *)

SyncStates ==
  [pc : {"idle", "read", "compare", "upload", "save", "lookup", "download", "unpack"},
   force : BOOLEAN, todo : SUBSET SyncFiles, got : Archives, sum : Archives \cup {NoObject}]

\* What a restore relies on has its metadata in the store, or had it.
Confirmed ==
  /\ meta # NoObject => meta \in packed
  /\ \A c \in SyncCalls : sync[c].pc = "download" => sync[c].sum \in packed
  /\ RestoresOnlyConfirmed

InBackup(c) == sync[c].pc \in {"read", "compare", "upload", "save"}

\* Backups that neither overlap nor are cut off keep data and metadata together, but for the
\* moment between the two writes.
Together ==
  /\ \A c, d \in SyncCalls : InBackup(c) /\ InBackup(d) => c = d
  /\ \A c \in SyncCalls : sync[c].pc = "save" => object = sync[c].got
  /\ (\A c \in SyncCalls : sync[c].pc # "save") => object = meta

SyncInv == SyncTypeOK /\ Confirmed /\ (calm => Together)

LEMMA IdleCall == SyncIdle.pc = "idle"
  BY DEF SyncIdle

LEMMA SyncInvInit == SyncInit => SyncInv
  BY SyncAssumption
     DEF SyncInit, SyncInv, SyncTypeOK, Confirmed, RestoresOnlyConfirmed, Together, InBackup, SyncIdle,
         Archives, Content, Empty, NoObject

-----------------------------------------------------------------------------
(* Types *)

\* The records of the calls.
LEMMA SyncRecords ==
  /\ SyncIdle \in SyncStates
  /\ \A r \in SyncStates :
       \A pc \in {"idle", "read", "compare", "upload", "save", "lookup", "download", "unpack"} :
         [r EXCEPT !.pc = pc] \in SyncStates
  /\ \A r \in SyncStates : \A S \in SUBSET SyncFiles : [r EXCEPT !.todo = S] \in SyncStates
  BY DEF SyncStates, SyncIdle, Archives, Content, Empty, NoObject

\* The actions that change no call.
SyncOthers ==
  \/ \E f \in SyncFiles, v \in Content : Edit(f, v)
  \/ RegisterInstance \/ UnregisterInstance \/ StartScheduler \/ StopScheduler

\* The actions of one call.
CallSteps(c) ==
  \/ BackupInstance(c) \/ RunBackupCycle(c) \/ Pack(c) \/ Compare(c) \/ UploadData(c)
  \/ SaveMetadata(c) \/ Restore(c) \/ LookUp(c) \/ Download(c) \/ SyncThrows(c)
  \/ \E f \in SyncFiles : ReadFile(c, f) \/ Unpack(c, f)

LEMMA SyncSteps ==
  SyncNext <=> (\E c \in SyncCalls : CallSteps(c)) \/ SyncOthers \/ SyncCrash
  BY DEF SyncNext, CallSteps, SyncOthers

LEMMA CallRecords ==
  ASSUME SyncTypeOK, NEW c \in SyncCalls, CallSteps(c)
  PROVE  /\ sync' = [sync EXCEPT ![c] = sync'[c]]
         /\ sync'[c] \in SyncStates
  <1>1. sync \in [SyncCalls -> SyncStates] /\ sync[c] \in SyncStates /\ files \in Archives
        /\ object \in Archives \cup {NoObject} /\ meta \in Archives \cup {NoObject}
    BY DEF SyncTypeOK, SyncStates
  <1>2. Present(files) \in SUBSET SyncFiles /\ \A a : Present(a) \in SUBSET SyncFiles
    BY DEF Present
  <1> USE DEF Go, Return
  <1>3. CASE BackupInstance(c) \/ RunBackupCycle(c)
    BY <1>1, <1>2, <1>3 DEF BackupInstance, RunBackupCycle, Backup, SyncStates
  <1>4. CASE Pack(c) \/ Compare(c) \/ UploadData(c) \/ SaveMetadata(c)
    BY <1>1, <1>4, SyncRecords DEF Pack, Compare, UploadData, SaveMetadata
  <1>5. CASE Restore(c) \/ SyncThrows(c)
    BY <1>1, <1>5, SyncRecords DEF Restore, SyncThrows
  <1>6. CASE LookUp(c) \/ Download(c)
    <2>1. \/ sync' = [sync EXCEPT ![c] = SyncIdle]
          \/ sync' = [sync EXCEPT ![c] = [@ EXCEPT !.pc = "download", !.sum = meta]]
          \/ /\ object \in Archives
             /\ sync' = [sync EXCEPT ![c] =
                                 [@ EXCEPT !.pc = "unpack", !.got = object, !.todo = Present(object)]]
      <3>1. CASE LookUp(c)
        BY <3>1 DEF LookUp
      <3>2. CASE Download(c)
        BY <1>1, <3>2 DEF Download
      <3>3. QED
        BY <1>6, <3>1, <3>2
    <2>2. [sync[c] EXCEPT !.pc = "download", !.sum = meta] \in SyncStates
      BY <1>1 DEF SyncStates
    <2>3. object \in Archives =>
            [sync[c] EXCEPT !.pc = "unpack", !.got = object, !.todo = Present(object)] \in SyncStates
      BY <1>1, <1>2 DEF SyncStates
    <2>4. QED
      BY <1>1, <2>1, <2>2, <2>3, SyncRecords
  <1>7. ASSUME NEW f \in SyncFiles, ReadFile(c, f)
        PROVE  sync' = [sync EXCEPT ![c] = sync'[c]] /\ sync'[c] \in SyncStates
    <2>1. files[f] \in Content
      BY <1>1 DEF Archives
    <2>2. [sync[c].got EXCEPT ![f] = files[f]] \in Archives
      BY <1>1, <2>1 DEF SyncStates, Archives
    <2>3. (IF files[f] = Missing THEN {} ELSE sync[c].todo \ {f}) \in SUBSET SyncFiles
      BY <1>1 DEF SyncStates
    <2>4. QED
      BY <1>1, <1>7, <2>2, <2>3 DEF ReadFile, SyncStates
  <1>8. ASSUME NEW f \in SyncFiles, Unpack(c, f)
        PROVE  sync' = [sync EXCEPT ![c] = sync'[c]] /\ sync'[c] \in SyncStates
    <2>1. sync[c].todo \ {f} \in SUBSET SyncFiles
      BY <1>1 DEF SyncStates
    <2>2. QED
      BY <1>1, <1>8, <2>1, SyncRecords DEF Unpack
  <1>9. QED
    BY <1>3, <1>4, <1>5, <1>6, <1>7, <1>8 DEF CallSteps

LEMMA SyncRest ==
  ASSUME SyncTypeOK, [SyncNext]_syncVars
  PROVE  /\ files' \in Archives
         /\ object' \in Archives \cup {NoObject} /\ meta' \in Archives \cup {NoObject}
         /\ scheduler' \in [running : BOOLEAN, registered : BOOLEAN]
         /\ packed' \in SUBSET Archives /\ calm' \in BOOLEAN /\ syncLeft' \in [SyncKinds -> Nat]
  <1>1. ASSUME NEW c \in SyncCalls, sync[c] \in SyncStates
        PROVE  sync[c].got \in Archives
    BY <1>1 DEF SyncStates
  <1>2. \A c \in SyncCalls : sync[c].got \in Archives
    BY <1>1 DEF SyncTypeOK, SyncStates
  <1> USE DEF SyncTypeOK, SyncSpend
  <1>3. \A k \in SyncKinds : SyncSpend(k) => syncLeft' \in [SyncKinds -> Nat]
    OBVIOUS
  <1>4. CASE UNCHANGED syncVars
    BY <1>4 DEF syncVars
  <1>5. ASSUME NEW c \in SyncCalls, CallSteps(c)
        PROVE  /\ files' \in Archives
               /\ object' \in Archives \cup {NoObject} /\ meta' \in Archives \cup {NoObject}
               /\ scheduler' \in [running : BOOLEAN, registered : BOOLEAN]
               /\ packed' \in SUBSET Archives /\ calm' \in BOOLEAN /\ syncLeft' \in [SyncKinds -> Nat]
    <2>1. CASE BackupInstance(c) \/ RunBackupCycle(c) \/ Restore(c) \/ SyncThrows(c)
      BY <1>3, <2>1 DEF BackupInstance, RunBackupCycle, Backup, Restore, SyncThrows, SyncKinds
    <2>2. CASE Pack(c) \/ Compare(c) \/ LookUp(c) \/ Download(c) \/ \E f \in SyncFiles : ReadFile(c, f)
      BY <2>2 DEF Pack, Compare, LookUp, Download, ReadFile
    <2>3. CASE UploadData(c) \/ SaveMetadata(c)
      BY <1>2, <2>3 DEF UploadData, SaveMetadata
    <2>4. CASE \E f \in SyncFiles : Unpack(c, f)
      <3>1. \A f \in SyncFiles : sync[c].got[f] \in Content
        BY <1>2 DEF Archives
      <3>2. QED
        BY <2>4, <3>1 DEF Unpack, Archives
    <2>5. QED
      BY <1>5, <2>1, <2>2, <2>3, <2>4 DEF CallSteps
  <1>6. CASE SyncOthers
    <2>1. ASSUME NEW f \in SyncFiles, NEW v \in Content, Edit(f, v)
          PROVE  files' \in Archives /\ syncLeft' \in [SyncKinds -> Nat]
                 /\ UNCHANGED <<object, meta, scheduler, packed, calm>>
      BY <1>3, <2>1 DEF Edit, Archives, SyncKinds
    <2>2. CASE RegisterInstance \/ UnregisterInstance \/ StartScheduler \/ StopScheduler
      BY <1>3, <2>2 DEF RegisterInstance, UnregisterInstance, StartScheduler, StopScheduler,
                        SetScheduler, SyncKinds
    <2>3. QED
      BY <1>6, <2>1, <2>2 DEF SyncOthers
  <1>7. CASE SyncCrash
    BY <1>3, <1>7 DEF SyncCrash, SyncKinds
  <1>8. QED
    BY <1>4, <1>5, <1>6, <1>7, SyncSteps

LEMMA SyncTypeStep == SyncTypeOK /\ [SyncNext]_syncVars => SyncTypeOK'
  <1> SUFFICES ASSUME SyncTypeOK, [SyncNext]_syncVars PROVE SyncTypeOK'
    OBVIOUS
  <1>1. sync' \in [SyncCalls -> SyncStates]
    <2>1. sync \in [SyncCalls -> SyncStates]
      BY DEF SyncTypeOK, SyncStates
    <2>2. ASSUME NEW c \in SyncCalls, CallSteps(c) PROVE sync' \in [SyncCalls -> SyncStates]
      BY <2>1, <2>2, CallRecords
    <2>3. CASE SyncOthers \/ UNCHANGED syncVars
      BY <2>1, <2>3 DEF SyncOthers, Edit, RegisterInstance, UnregisterInstance, StartScheduler,
                        StopScheduler, SetScheduler, syncVars
    <2>4. CASE SyncCrash
      BY <2>4, SyncRecords DEF SyncCrash
    <2>5. QED
      BY <2>2, <2>3, <2>4, SyncSteps
  <1>2. QED
    BY <1>1, SyncRest DEF SyncTypeOK, SyncStates

-----------------------------------------------------------------------------
(* Restores *)

LEMMA ConfirmedStep == SyncTypeOK /\ Confirmed /\ [SyncNext]_syncVars => Confirmed'
  <1> SUFFICES ASSUME SyncTypeOK, Confirmed, [SyncNext]_syncVars PROVE Confirmed'
    OBVIOUS
  <1>1. packed \subseteq packed'
    <2>1. ASSUME NEW c \in SyncCalls, CallSteps(c) PROVE packed \subseteq packed'
      BY <2>1 DEF CallSteps, BackupInstance, RunBackupCycle, Backup, Pack, Compare, UploadData,
                  SaveMetadata, Restore, LookUp, Download, SyncThrows, ReadFile, Unpack
    <2>2. CASE SyncOthers \/ SyncCrash \/ UNCHANGED syncVars
      BY <2>2 DEF SyncOthers, Edit, RegisterInstance, UnregisterInstance, StartScheduler,
                  StopScheduler, SetScheduler, SyncCrash, syncVars
    <2>3. QED
      BY <2>1, <2>2, SyncSteps
  <1>2. meta' # NoObject => meta' \in packed'
    <2>1. ASSUME NEW c \in SyncCalls, CallSteps(c) PROVE meta' = meta \/ meta' \in packed'
      BY <2>1 DEF CallSteps, BackupInstance, RunBackupCycle, Backup, Pack, Compare, UploadData,
                  SaveMetadata, Restore, LookUp, Download, SyncThrows, ReadFile, Unpack
    <2>2. CASE SyncOthers \/ SyncCrash \/ UNCHANGED syncVars
      BY <2>2, <1>1 DEF SyncOthers, Edit, RegisterInstance, UnregisterInstance, StartScheduler,
                  StopScheduler, SetScheduler, SyncCrash, syncVars, Confirmed
    <2>3. QED
      BY <1>1, <2>1, <2>2, SyncSteps DEF Confirmed
  <1>3. ASSUME NEW c \in SyncCalls
        PROVE  /\ sync'[c].pc = "download" => sync'[c].sum \in packed'
               /\ sync'[c].pc = "unpack" => sync'[c].got \in packed'
    <2>0. sync[c] \in SyncStates /\ sync \in [SyncCalls -> SyncStates]
      BY DEF SyncTypeOK, SyncStates
    <2>1. CASE sync'[c] = sync[c]
      BY <1>1, <2>1 DEF Confirmed, RestoresOnlyConfirmed
    <2>2. CASE SyncOthers \/ UNCHANGED syncVars
      BY <2>1, <2>2 DEF SyncOthers, Edit, RegisterInstance, UnregisterInstance, StartScheduler,
                  StopScheduler, SetScheduler, syncVars
    <2>3. CASE SyncCrash
      BY <2>3 DEF SyncCrash, SyncIdle
    <2>4. ASSUME NEW d \in SyncCalls, CallSteps(d), d # c PROVE sync'[c] = sync[c]
      BY <2>0, <2>4, CallRecords
    <2>5. CASE CallSteps(c)
      <3> USE <2>0 DEF SyncStates, Go, Return, SyncIdle
      <3>1. CASE BackupInstance(c) \/ RunBackupCycle(c) \/ Pack(c) \/ Compare(c) \/ UploadData(c)
                 \/ SaveMetadata(c) \/ Restore(c) \/ SyncThrows(c)
        <4>1. sync'[c].pc \in {"idle", "read", "upload", "compare", "save", "lookup"}
          BY <3>1 DEF BackupInstance, RunBackupCycle, Backup, Pack, Compare, UploadData,
                      SaveMetadata, Restore, SyncThrows
        <4>2. QED
          BY <4>1
      <3>2. CASE LookUp(c)
        <4>1. CASE meta = NoObject
          BY <3>2, <4>1 DEF LookUp
        <4>2. CASE meta # NoObject
          <5>1. meta \in packed
            BY <4>2 DEF Confirmed
          <5>2. sync'[c].pc = "download" /\ sync'[c].sum = meta
            BY <3>2, <4>2 DEF LookUp
          <5>3. QED
            BY <1>1, <5>1, <5>2
        <4>3. QED
          BY <4>1, <4>2
      <3>3. CASE Download(c)
        <4>1. sync[c].sum \in packed
          BY <3>3 DEF Download, Confirmed
        <4>2. CASE object = NoObject \/ object # sync[c].sum
          BY <3>3, <4>2 DEF Download
        <4>3. CASE object # NoObject /\ object = sync[c].sum
          <5>1. sync'[c].pc = "unpack" /\ sync'[c].got = object
            BY <3>3, <4>3 DEF Download
          <5>2. QED
            BY <1>1, <4>1, <4>3, <5>1
        <4>4. QED
          BY <4>2, <4>3
      <3>4. CASE \E f \in SyncFiles : ReadFile(c, f)
        BY <3>4 DEF ReadFile
      <3>5. CASE \E f \in SyncFiles : Unpack(c, f)
        <4>1. sync[c].got \in packed
          BY <3>5 DEF Unpack, Confirmed, RestoresOnlyConfirmed
        <4>2. PICK f \in SyncFiles : Unpack(c, f)
          BY <3>5
        <4>3. CASE sync[c].todo = {f}
          BY <4>2, <4>3 DEF Unpack
        <4>4. CASE sync[c].todo # {f}
          <5>1. sync'[c].pc = "unpack" /\ sync'[c].got = sync[c].got
            BY <4>2, <4>4 DEF Unpack
          <5>2. QED
            BY <1>1, <4>1, <5>1
        <4>5. QED
          BY <4>3, <4>4
      <3>6. QED
        BY <2>5, <3>1, <3>2, <3>3, <3>4, <3>5 DEF CallSteps
    <2>6. QED
      BY <2>1, <2>2, <2>3, <2>4, <2>5, SyncSteps
  <1>4. QED
    BY <1>2, <1>3 DEF Confirmed, RestoresOnlyConfirmed

-----------------------------------------------------------------------------
(* Backups *)

LEMMA TogetherStep ==
  ASSUME SyncTypeOK, calm => Together, [SyncNext]_syncVars, calm'
  PROVE  Together'
  <1>0. sync \in [SyncCalls -> SyncStates] /\ \A c \in SyncCalls : sync[c] \in SyncStates
    BY DEF SyncTypeOK, SyncStates
  <1>1. calm
    <2>1. ASSUME NEW c \in SyncCalls, CallSteps(c) PROVE calm
      BY <2>1 DEF CallSteps, BackupInstance, RunBackupCycle, Backup, Pack, Compare, UploadData,
                  SaveMetadata, Restore, LookUp, Download, SyncThrows, ReadFile, Unpack
    <2>2. CASE SyncOthers \/ SyncCrash \/ UNCHANGED syncVars
      BY <2>2 DEF SyncOthers, Edit, RegisterInstance, UnregisterInstance, StartScheduler,
                  StopScheduler, SetScheduler, SyncCrash, syncVars
    <2>3. QED
      BY <2>1, <2>2, SyncSteps
  <1>2. Together
    BY <1>1
  <1>3. CASE SyncOthers \/ UNCHANGED syncVars
    BY <1>2, <1>3 DEF Together, InBackup, SyncOthers, Edit, RegisterInstance, UnregisterInstance,
         StartScheduler, StopScheduler, SetScheduler, syncVars
  <1>4. CASE SyncCrash
    <2>1. \A c \in SyncCalls : ~InBackup(c)
      BY <1>4 DEF SyncCrash, BackingUp, InBackup
    <2>2. object = meta
      BY <1>2, <2>1 DEF Together, InBackup
    <2>3. QED
      BY <1>4, <2>2 DEF Together, InBackup, SyncCrash, SyncIdle
  <1>5. ASSUME NEW c \in SyncCalls, CallSteps(c) PROVE Together'
    <2>1. \A d \in SyncCalls : d # c => sync'[d] = sync[d]
      BY <1>0, <1>5, CallRecords
    <2> USE <1>0 DEF SyncStates, Go, Return
    <2>2. CASE BackupInstance(c) \/ RunBackupCycle(c)
      <3>1. Backup(c, TRUE) \/ Backup(c, FALSE)
        BY <2>2 DEF BackupInstance, RunBackupCycle
      <3>2. \A d \in SyncCalls : ~InBackup(d)
        BY <3>1 DEF Backup, BackingUp, InBackup
      <3>3. object = meta
        BY <1>2, <3>2 DEF Together, InBackup
      <3>4. CASE Backup(c, TRUE)
        <4>1. sync'[c].pc = "read"
          BY <3>4 DEF Backup
        <4>2. UNCHANGED <<object, meta>>
          BY <3>4 DEF Backup
        <4>3. QED
          BY <2>1, <3>2, <3>3, <4>1, <4>2 DEF Together, InBackup
      <3>5. CASE Backup(c, FALSE)
        <4>1. sync'[c].pc = "read"
          BY <3>5 DEF Backup
        <4>2. UNCHANGED <<object, meta>>
          BY <3>5 DEF Backup
        <4>3. QED
          BY <2>1, <3>2, <3>3, <4>1, <4>2 DEF Together, InBackup
      <3>6. QED
        BY <3>1, <3>4, <3>5
    <2>3. CASE (\E f \in SyncFiles : ReadFile(c, f)) \/ Pack(c) \/ Compare(c)
      <3>1. InBackup(c) /\ sync[c].pc # "save" /\ UNCHANGED <<object, meta>>
        BY <2>3 DEF ReadFile, Pack, Compare, InBackup
      <3>2. \A d \in SyncCalls : d # c => ~InBackup(d)
        BY <1>2, <3>1 DEF Together
      <3>3. object = meta
        BY <1>2, <3>1, <3>2 DEF Together, InBackup
      <3>4. sync'[c].pc # "save"
        <4>1. CASE \E f \in SyncFiles : ReadFile(c, f)
          BY <3>1, <4>1 DEF ReadFile
        <4>2. CASE Pack(c)
          BY <4>2 DEF Pack, SyncIdle
        <4>3. CASE Compare(c)
          BY <4>3 DEF Compare, SyncIdle
        <4>4. QED
          BY <2>3, <4>1, <4>2, <4>3
      <3>5. QED
        BY <2>1, <3>1, <3>2, <3>3, <3>4 DEF Together, InBackup
    <2>4. CASE UploadData(c)
      <3>1. InBackup(c)
        BY <2>4 DEF UploadData, InBackup
      <3>2. \A d \in SyncCalls : d # c => ~InBackup(d)
        BY <1>2, <3>1 DEF Together
      <3>3. sync'[c].pc = "save" /\ sync'[c].got = sync[c].got /\ object' = sync[c].got
        BY <2>4 DEF UploadData
      <3>4. QED
        BY <2>1, <3>2, <3>3 DEF Together, InBackup
    <2>5. CASE SaveMetadata(c)
      <3>1. InBackup(c) /\ sync[c].pc = "save"
        BY <2>5 DEF SaveMetadata, InBackup
      <3>2. \A d \in SyncCalls : d # c => ~InBackup(d)
        BY <1>2, <3>1 DEF Together
      <3>3. object' = meta' /\ sync'[c].pc = "idle"
        BY <1>2, <2>5, <3>1 DEF SaveMetadata, Together, SyncIdle
      <3>4. QED
        BY <2>1, <3>2, <3>3 DEF Together, InBackup
    <2>6. CASE Restore(c) \/ LookUp(c) \/ Download(c) \/ \E f \in SyncFiles : Unpack(c, f)
      <3>1. ~InBackup(c) /\ sync[c].pc # "save" /\ UNCHANGED <<object, meta>>
        <4>1. sync[c].pc \in {"idle", "lookup", "download", "unpack"}
          BY <2>6, IdleCall DEF Restore, LookUp, Download, Unpack
        <4>2. UNCHANGED <<object, meta>>
          BY <2>6 DEF Restore, LookUp, Download, Unpack
        <4>3. QED
          BY <4>1, <4>2 DEF InBackup
      <3>2. sync'[c].pc \in {"idle", "lookup", "download", "unpack"}
        <4>1. CASE Restore(c)
          BY <4>1 DEF Restore
        <4>2. CASE LookUp(c)
          BY <4>2 DEF LookUp, SyncIdle
        <4>3. CASE Download(c)
          BY <4>3 DEF Download, SyncIdle
        <4>4. ASSUME NEW f \in SyncFiles, Unpack(c, f)
              PROVE  sync'[c].pc \in {"idle", "unpack"}
          BY <4>4 DEF Unpack, SyncIdle
        <4>5. QED
          BY <2>6, <4>1, <4>2, <4>3, <4>4
      <3>3. QED
        BY <1>2, <2>1, <3>1, <3>2 DEF Together, InBackup
    <2>7. CASE SyncThrows(c)
      <3>1. ~InBackup(c) /\ UNCHANGED <<object, meta>>
        BY <2>7 DEF SyncThrows, BackingUp, InBackup
      <3>2. sync'[c].pc = "idle" /\ sync[c].pc # "save"
        BY <2>7, <3>1 DEF SyncThrows, SyncIdle, InBackup
      <3>3. QED
        BY <1>2, <2>1, <3>1, <3>2 DEF Together, InBackup
    <2>8. QED
      BY <1>5, <2>2, <2>3, <2>4, <2>5, <2>6, <2>7 DEF CallSteps
  <1>6. QED
    BY <1>3, <1>4, <1>5, SyncSteps

LEMMA SyncInvStep == SyncInv /\ [SyncNext]_syncVars => SyncInv'
  BY SyncTypeStep, ConfirmedStep, TogetherStep DEF SyncInv

\* Type correctness of the workspace, the store and the calls on them.
THEOREM SyncTypes == SyncSpec => []SyncTypeOK
  <1>1. SyncInv => SyncTypeOK
    BY DEF SyncInv
  <1>2. QED
    BY <1>1, SyncInvInit, SyncInvStep, PTL DEF SyncSpec

\* A restore unpacks nothing but an archive that some backup confirmed by its metadata, for
\* any number of calls, faults and restarts: the checksum decides.
THEOREM RestoresConfirmed == SyncSpec => []RestoresOnlyConfirmed
  <1>1. SyncInv => RestoresOnlyConfirmed
    BY DEF SyncInv, Confirmed
  <1>2. QED
    BY <1>1, SyncInvInit, SyncInvStep, PTL DEF SyncSpec

-----------------------------------------------------------------------------
LEMMA BackupEnds ==
  ASSUME SyncInv, [SyncNext]_syncVars, NEW c \in SyncCalls, calm',
         sync[c].pc \in {"compare", "save"}, sync'[c].pc = "idle"
  PROVE  object' = sync[c].got /\ meta' = sync[c].got
  <1>0. sync \in [SyncCalls -> SyncStates] /\ sync'[c] # sync[c] /\ InBackup(c)
    BY DEF SyncInv, SyncTypeOK, SyncStates, InBackup
  <1>1. Together /\ Together'
    <2>1. Together'
      BY TogetherStep DEF SyncInv
    <2>2. calm
      BY SyncSteps, ZenonT(30) DEF CallSteps, BackupInstance, RunBackupCycle, Backup, Pack, Compare, UploadData,
           SaveMetadata, Restore, LookUp, Download, SyncThrows, ReadFile, Unpack, SyncOthers, Edit,
           RegisterInstance, UnregisterInstance, StartScheduler, StopScheduler, SetScheduler,
           SyncCrash, syncVars
    <2>3. QED
      BY <2>1, <2>2 DEF SyncInv
  <1>2. CallSteps(c)
    <2>1. ~SyncCrash
      BY <1>0 DEF SyncCrash, BackingUp, InBackup
    <2>2. SyncOthers \/ UNCHANGED syncVars => sync' = sync
      BY DEF SyncOthers, Edit, RegisterInstance, UnregisterInstance, StartScheduler,
             StopScheduler, SetScheduler, syncVars
    <2>3. \A d \in SyncCalls : CallSteps(d) => d = c
      BY <1>0, CallRecords DEF SyncInv
    <2>4. QED
      BY <1>0, <2>1, <2>2, <2>3, SyncSteps
  <1>3. ~SyncThrows(c)
    BY <1>0 DEF SyncThrows, BackingUp, InBackup
  <1>4. Compare(c) \/ SaveMetadata(c)
    <2>1. ~BackupInstance(c) /\ ~RunBackupCycle(c)
      BY IdleCall DEF BackupInstance, RunBackupCycle, Backup
    <2>2. ~Pack(c) /\ ~UploadData(c) /\ ~LookUp(c) /\ ~Download(c)
      BY DEF Pack, UploadData, LookUp, Download
    <2>3. ~Restore(c)
      BY IdleCall DEF Restore
    <2>4. \A f \in SyncFiles : ~ReadFile(c, f) /\ ~Unpack(c, f)
      BY DEF ReadFile, Unpack
    <2>5. QED
      BY <1>2, <1>3, <2>1, <2>2, <2>3, <2>4 DEF CallSteps
  <1>5. CASE Compare(c)
    <2>1. meta = sync[c].got /\ UNCHANGED <<object, meta>>
      BY <1>0, <1>5 DEF Compare, Go, SyncStates
    <2>2. sync[c].pc = "compare"
      BY <1>5 DEF Compare
    <2>3. \A d \in SyncCalls : sync[d].pc # "save"
      BY <1>0, <1>1, <2>2 DEF Together, InBackup
    <2>4. object = meta
      BY <1>1, <2>3 DEF Together
    <2>5. QED
      BY <2>1, <2>4
  <1>6. CASE SaveMetadata(c)
    BY <1>1, <1>6 DEF SaveMetadata, Together
  <1>7. QED
    BY <1>4, <1>5, <1>6

\* A backup that ends well, also one that finds its checksum already there and skips, leaves
\* data and metadata of what it read, if backups neither overlap nor are cut off.
THEOREM BackupsAreWhole == SyncSpec => BackupLeavesWhatItRead
  <1>1. SyncInv /\ [SyncNext]_syncVars =>
          [\A c \in SyncCalls :
             calm' /\ sync[c].pc \in {"compare", "save"} /\ sync'[c].pc = "idle"
               => object' = sync[c].got /\ meta' = sync[c].got]_syncVars
    BY BackupEnds
  <1>2. QED
    BY <1>1, SyncInvInit, SyncInvStep, PTL DEF SyncSpec, BackupLeavesWhatItRead

-----------------------------------------------------------------------------
(* Pairing: for any senders, calls and limits *)

Busy(c) == pair[c] # PairIdle
GatewayOps == {"approve", "code", "batch", "revoke"}

\* What a call is at tells what it is.
Well(r) ==
  /\ r.pc = "idle" => r = PairIdle
  /\ r.pc = "rows" => r.op \in GatewayOps \cup {"reject", "create"}
  /\ r.pc = "get" => r.op \in GatewayOps \cup {"pull"}
  /\ r.pc = "patch" => r.op \in GatewayOps
CallsAreWell == \A c \in PairCalls : Well(pair[c])

\* The rows fit a list.
Fits(rows, allow) ==
  \A x \in Senders : /\ rows[x] = "APPROVED" => x \in allow
                     /\ rows[x] = "REVOKED" => x \notin allow

\* The list that a call is about to make of a list.
Makes(c, allow) ==
  CASE pair[c].op = "revoke" -> allow \ pair[c].of
    [] pair[c].op = "pull" -> allow
    [] OTHER -> allow \cup pair[c].of

\* Without overlap and failure the rows fit what the list is, or is about to be.
Alone == \A c, d \in PairCalls : Busy(c) /\ Busy(d) => c = d
AtRest == AllPairsIdle => Fits(state, config.allow)
AtRows ==
  \A c \in PairCalls : pair[c].pc = "rows" =>
    /\ Fits(state, config.allow)
    /\ pair[c].op = "batch" =>
         \A x \in Senders : /\ state[x] = "PENDING" => x \in pair[c].of
                            /\ state[x] = "REVOKED" => x \notin pair[c].of
AtGet == \A c \in PairCalls : pair[c].pc = "get" => Fits(state, Makes(c, config.allow))
AtPatch ==
  \A c \in PairCalls :
    pair[c].pc = "patch" => pair[c].read = config /\ Fits(state, NewList(c))
AtUpsert ==
  \A c \in PairCalls :
    pair[c].pc = "upsert" => Fits(state, config.allow) /\ pair[c].of \subseteq config.allow

PairParts == Alone /\ AtRest /\ AtRows /\ AtGet /\ AtPatch /\ AtUpsert

PairInv == PairTypeOK /\ CallsAreWell /\ (pairCalm => PairParts)

LEMMA PairInvInit == PairInit => PairInv
  BY PairAssumption
     DEF PairInit, PairInv, PairTypeOK, CallsAreWell, Well, PairParts, Alone, AtRest, AtRows, AtGet,
         AtPatch, AtUpsert, Fits, PairIdle, PairStates, States, Configs, Busy

-----------------------------------------------------------------------------
(* Types *)

\* The records of the calls.
LEMMA PairRecords ==
  /\ PairIdle \in PairStates
  /\ \A r \in PairStates : \A pc \in {"rows", "get", "patch", "upsert"} :
       [r EXCEPT !.pc = pc] \in PairStates
  /\ \A r \in PairStates : \A S \in SUBSET Senders : [r EXCEPT !.of = S] \in PairStates
  BY DEF PairStates, PairIdle, Configs

LEMMA BeginTypes ==
  ASSUME PairTypeOK, CallsAreWell, NEW c \in PairCalls,
         NEW op \in GatewayOps \cup {"reject", "create", "pull"}, NEW S \in SUBSET Senders,
         NEW pc \in {"rows", "get"}, op = "pull" <=> pc = "get", Begin(c, op, S, pc)
  PROVE  PairTypeOK' /\ CallsAreWell'
  <1>1. pair'[c] = [op |-> op, pc |-> pc, of |-> S, read |-> [allow |-> {}, rest |-> 0]]
        /\ \A d \in PairCalls : d # c => pair'[d] = pair[d]
    BY DEF Begin, PairTypeOK, PairIdle
  <1>2. pair' \in [PairCalls -> PairStates]
    BY <1>1 DEF Begin, PairTypeOK, PairStates, Configs, GatewayOps
  <1>3. pairLeft' \in [PairKinds -> Nat] /\ pairCalm' \in BOOLEAN /\ UNCHANGED <<state, config>>
    BY DEF Begin, PairTypeOK, PairSpend, PairKinds
  <1>4. CallsAreWell'
    BY <1>1 DEF CallsAreWell, Well, GatewayOps
  <1>5. QED
    BY <1>2, <1>3, <1>4 DEF PairTypeOK

LEMMA CallTypes ==
  ASSUME PairTypeOK, CallsAreWell, NEW c \in PairCalls,
         \/ WriteRows(c) \/ ConfigGet(c) \/ ConfigPatch(c) \/ PairThrows(c)
         \/ \E s \in Senders : UpsertListed(c, s)
  PROVE  PairTypeOK' /\ CallsAreWell'
  <1> USE DEF PairTypeOK, GatewayOps, Becomes, Leaves
  <1>0. pair[c] \in PairStates
    OBVIOUS
  <1>1. pair' \in [PairCalls -> PairStates]
    <2>1. CASE WriteRows(c)
      BY <1>0, <2>1, PairRecords DEF WriteRows
    <2>2. CASE ConfigGet(c)
      BY <1>0, <2>2 DEF ConfigGet, PairStates, PairIdle, Configs
    <2>3. CASE ConfigPatch(c) \/ PairThrows(c)
      BY <1>0, <2>3, PairRecords DEF ConfigPatch, PairThrows
    <2>4. ASSUME NEW s \in Senders, UpsertListed(c, s) PROVE pair' \in [PairCalls -> PairStates]
      <3>1. pair[c].of \ {s} \in SUBSET Senders
        BY <1>0 DEF PairStates
      <3>2. [pair[c] EXCEPT !.of = pair[c].of \ {s}] \in PairStates
        BY <1>0, <3>1, PairRecords
      <3>3. QED
        BY <2>4, <3>2, PairRecords DEF UpsertListed
    <2>5. QED
      BY <2>1, <2>2, <2>3, <2>4
  <1>2. CallsAreWell'
    <2>1. CASE WriteRows(c)
      <3>1. \A d \in PairCalls : d # c => pair'[d] = pair[d]
        BY <2>1 DEF WriteRows
      <3>2. pair'[c] = PairIdle \/ (pair[c].op \in GatewayOps /\ pair'[c] = [pair[c] EXCEPT !.pc = "get"])
        BY <1>0, <2>1 DEF WriteRows, CallsAreWell, Well
      <3>3. Well(pair'[c])
        BY <1>0, <3>2 DEF Well, PairStates, PairIdle
      <3>4. QED
        BY <3>1, <3>3 DEF CallsAreWell
    <2>2. CASE ConfigGet(c)
      <3>1. \A d \in PairCalls : d # c => pair'[d] = pair[d]
        BY <2>2 DEF ConfigGet
      <3>2. \/ pair'[c] = PairIdle
            \/ pair'[c].pc = "patch" /\ pair'[c].op = pair[c].op /\ pair[c].op # "pull"
            \/ pair'[c].pc = "upsert"
        BY <1>0, <2>2 DEF ConfigGet, PairStates
      <3>3. pair[c].op \in GatewayOps \cup {"pull"}
        BY <2>2 DEF ConfigGet, CallsAreWell, Well
      <3>4. Well(pair'[c])
        BY <1>0, <3>2, <3>3 DEF Well, PairStates, PairIdle
      <3>5. QED
        BY <3>1, <3>4 DEF CallsAreWell
    <2>3. CASE ConfigPatch(c)
      BY <1>0, <2>3 DEF CallsAreWell, Well, ConfigPatch, PairStates, PairIdle
    <2>4. CASE PairThrows(c)
      BY <1>0, <2>4 DEF CallsAreWell, Well, PairThrows, PairStates, PairIdle
    <2>5. ASSUME NEW s \in Senders, UpsertListed(c, s) PROVE CallsAreWell'
      <3>1. \A d \in PairCalls : d # c => pair'[d] = pair[d]
        BY <2>5 DEF UpsertListed
      <3>2. pair'[c] = PairIdle \/ pair'[c] = [pair[c] EXCEPT !.of = @ \ {s}]
        BY <1>0, <2>5 DEF UpsertListed
      <3>3. pair[c].pc = "upsert"
        BY <2>5 DEF UpsertListed
      <3>4. Well(pair'[c])
        BY <1>0, <3>2, <3>3 DEF Well, PairStates, PairIdle
      <3>5. QED
        BY <3>1, <3>4 DEF CallsAreWell
    <2>6. QED
      BY <2>1, <2>2, <2>3, <2>4, <2>5
  <1>3. state' \in [Senders -> States]
    <2>1. CASE WriteRows(c)
      <3>1. \A S, s : Put(S, s) /\ s \in States => state' \in [Senders -> States]
        BY DEF Put
      <3>2. PICK S, s : Put(S, s) /\ s \in {"APPROVED", "REVOKED", "REJECTED", "PENDING"}
        BY <1>0, <2>1 DEF WriteRows, CallsAreWell, Well
      <3>3. QED
        BY <3>1, <3>2 DEF States
    <2>2. CASE ConfigGet(c)
      BY <2>2 DEF ConfigGet, Put, States
    <2>3. CASE ConfigPatch(c)
      BY <2>3 DEF ConfigPatch, Put, States
    <2>4. CASE PairThrows(c)
      BY <2>4 DEF PairThrows, Put, States
    <2>5. CASE \E s \in Senders : UpsertListed(c, s)
      BY <2>5 DEF UpsertListed, Put, States
    <2>6. QED
      BY <2>1, <2>2, <2>3, <2>4, <2>5
  <1>4. config' \in Configs
    <2>1. CASE ConfigPatch(c)
      BY <1>0, <2>1 DEF ConfigPatch, NewList, PairStates, Configs
    <2>2. CASE ~ConfigPatch(c)
      BY <2>2 DEF WriteRows, ConfigGet, PairThrows, UpsertListed
    <2>3. QED
      BY <2>1, <2>2
  <1>5. pairCalm' \in BOOLEAN /\ pairLeft' \in [PairKinds -> Nat]
    <2>1. CASE WriteRows(c)
      BY <2>1 DEF WriteRows, PairSpend, PairKinds
    <2>2. CASE ConfigGet(c)
      BY <2>2 DEF ConfigGet, PairSpend, PairKinds
    <2>3. CASE ConfigPatch(c)
      BY <2>3 DEF ConfigPatch, PairSpend, PairKinds
    <2>4. CASE PairThrows(c)
      <3>1. pairCalm' \in BOOLEAN
        BY <2>4 DEF PairThrows
      <3>2. pairLeft' \in [PairKinds -> Nat]
        BY <2>4 DEF PairThrows, PairSpend, PairKinds
      <3>3. QED
        BY <3>1, <3>2
    <2>5. CASE \E s \in Senders : UpsertListed(c, s)
      BY <2>5 DEF UpsertListed, PairSpend, PairKinds
    <2>6. QED
      BY <2>1, <2>2, <2>3, <2>4, <2>5
  <1>6. QED
    BY <1>1, <1>2, <1>3, <1>4, <1>5

LEMMA OtherTypes ==
  ASSUME PairTypeOK, CallsAreWell,
         OtherPatch \/ (\E S \in SUBSET Senders : ExpireStale(S)) \/ UNCHANGED pairVars
  PROVE  PairTypeOK' /\ CallsAreWell'
  <1> USE PairAssumption DEF PairTypeOK, CallsAreWell, Well, PairKinds, PairIdle, Configs, States, Put
  <1>1. CASE OtherPatch
    BY <1>1 DEF OtherPatch, PairSpend
  <1>2. ASSUME NEW S \in SUBSET Senders, ExpireStale(S) PROVE PairTypeOK' /\ CallsAreWell'
    BY <1>2 DEF ExpireStale, PairSpend
  <1>3. CASE UNCHANGED pairVars
    BY <1>3 DEF pairVars
  <1>4. QED
    BY <1>1, <1>2, <1>3

-----------------------------------------------------------------------------
(* A call begins: nothing else was under way. *)

LEMMA BeginParts ==
  ASSUME PairInv, PairTypeOK', pairCalm', NEW c \in PairCalls,
         NEW op \in GatewayOps \cup {"reject", "create", "pull"}, NEW S \in SUBSET Senders,
         NEW pc \in {"rows", "get"}, op = "pull" <=> pc = "get", Begin(c, op, S, pc),
         op = "batch" => S = In("PENDING")
  PROVE  PairParts'
  <1> USE DEF PairInv, PairTypeOK, PairParts, Begin, PairIdle, GatewayOps
  <1>1. \A d \in PairCalls : ~Busy(d)
    BY DEF AllPairsIdle, Busy
  <1>2. Fits(state, config.allow)
    BY DEF AtRest
  <1>3. \A d \in PairCalls : d # c => pair'[d] = PairIdle
    BY <1>1 DEF Busy
  <1>4. pair'[c] = [PairIdle EXCEPT !.op = op, !.of = S, !.pc = pc]
    OBVIOUS
  <1>5. UNCHANGED <<state, config>>
    OBVIOUS
  <1>6. Alone'
    BY <1>3 DEF Alone, Busy
  <1>7. AtRest'
    BY <1>2, <1>5 DEF AtRest, Fits
  <1>8. AtRows'
    BY <1>2, <1>3, <1>4, <1>5 DEF AtRows, Fits, In
  <1>9. AtGet'
    BY <1>2, <1>3, <1>4, <1>5 DEF AtGet, Fits, Makes
  <1>10. AtPatch' /\ AtUpsert'
    BY <1>3, <1>4 DEF AtPatch, AtUpsert
  <1>11. QED
    BY <1>6, <1>7, <1>8, <1>9, <1>10

-----------------------------------------------------------------------------
(* The call that is under way, the only one, makes a step. *)

\* What a step of the only call has to show.
LEMMA OneCallGoesOn ==
  ASSUME NEW c \in PairCalls, \A d \in PairCalls : d # c => pair'[d] = PairIdle,
         pair'[c].pc # "rows",
         (pair[c].pc = "idle" => Fits(state, config.allow))',
         (pair[c].pc = "get" => Fits(state, Makes(c, config.allow)))',
         (pair[c].pc = "patch" => pair[c].read = config /\ Fits(state, NewList(c)))',
         (pair[c].pc = "upsert" => Fits(state, config.allow) /\ pair[c].of \subseteq config.allow)'
  PROVE  PairParts'
  <1>1. Alone'
    BY DEF Alone, Busy
  <1>2. AtRest'
    BY DEF AtRest, AllPairsIdle, PairIdle
  <1>3. AtRows' /\ AtGet' /\ AtPatch' /\ AtUpsert'
    BY DEF AtRows, AtGet, AtPatch, AtUpsert, PairIdle
  <1>4. QED
    BY <1>1, <1>2, <1>3 DEF PairParts

LEMMA CallParts ==
  ASSUME PairInv, pairCalm', NEW c \in PairCalls,
         \/ WriteRows(c) \/ ConfigGet(c) \/ ConfigPatch(c) \/ PairThrows(c)
         \/ \E s \in Senders : UpsertListed(c, s)
  PROVE  PairParts'
  <1>1. pairCalm
    BY DEF WriteRows, ConfigGet, ConfigPatch, PairThrows, UpsertListed
  <1>2. pair[c] \in PairStates /\ Well(pair[c]) /\ state \in [Senders -> States]
        /\ pair \in [PairCalls -> PairStates] /\ config \in Configs /\ pair[c].pc # "idle"
    BY DEF PairInv, PairTypeOK, CallsAreWell, WriteRows, ConfigGet, ConfigPatch, PairThrows,
           UpsertListed, Well
  <1>3. \A d \in PairCalls : d # c => pair[d] = PairIdle
    BY <1>1, <1>2 DEF PairInv, PairParts, Alone, Busy, PairIdle
  <1>4. \A d \in PairCalls : d # c => pair'[d] = PairIdle
    BY <1>2, <1>3 DEF WriteRows, ConfigGet, ConfigPatch, PairThrows, UpsertListed, Becomes, Leaves
  <1>5. CASE WriteRows(c)
    <2>1. Fits(state, config.allow)
      BY <1>1, <1>5 DEF PairInv, PairParts, AtRows, WriteRows
    <2>2. config' = config
      BY <1>5 DEF WriteRows
    <2>3. CASE pair[c].op \in {"reject", "create"}
      <3>1. Fits(state', config.allow)
        BY <1>5, <2>1, <2>3 DEF WriteRows, Put, Fits
      <3>2. pair'[c] = PairIdle
        BY <1>2, <1>5, <2>3 DEF WriteRows, Leaves
      <3>3. QED
        BY <1>4, <2>2, <3>1, <3>2, OneCallGoesOn DEF PairIdle
    <2>4. CASE pair[c].op \in GatewayOps
      <3>1. Fits(state', Makes(c, config.allow))
        <4>1. CASE pair[c].op \in {"approve", "code"}
          BY <1>5, <2>1, <4>1 DEF WriteRows, Put, Fits, Makes
        <4>2. CASE pair[c].op = "batch"
          <5>1. \A x \in Senders : /\ state[x] = "PENDING" => x \in pair[c].of
                                   /\ state[x] = "REVOKED" => x \notin pair[c].of
            BY <1>1, <1>5, <4>2 DEF PairInv, PairParts, AtRows, WriteRows
          <5>2. QED
            BY <1>5, <2>1, <4>2, <5>1 DEF WriteRows, Put, In, Fits, Makes
        <4>3. CASE pair[c].op = "revoke"
          BY <1>5, <2>1, <4>3 DEF WriteRows, Put, Fits, Makes
        <4>4. QED
          BY <2>4, <4>1, <4>2, <4>3 DEF GatewayOps
      <3>2. CASE pair[c].of = {}
        <4>1. pair'[c] = PairIdle
          BY <1>2, <1>5, <3>2 DEF WriteRows, Leaves
        <4>2. Fits(state', config'.allow)
          BY <2>2, <2>4, <3>1, <3>2 DEF Fits, Makes, GatewayOps
        <4>3. QED
          BY <1>4, <4>1, <4>2, OneCallGoesOn DEF PairIdle
      <3>3. CASE pair[c].of # {}
        <4>1. pair'[c].pc = "get" /\ pair'[c].op = pair[c].op /\ pair'[c].of = pair[c].of
          BY <1>2, <1>5, <2>4, <3>3 DEF WriteRows, Becomes, GatewayOps, PairStates
        <4>2. Makes(c, config.allow)' = Makes(c, config.allow)
          BY <2>2, <4>1 DEF Makes
        <4>3. QED
          BY <1>4, <3>1, <4>1, <4>2, OneCallGoesOn
      <3>4. QED
        BY <3>2, <3>3
    <2>5. QED
      BY <1>2, <1>5, <2>3, <2>4 DEF Well, WriteRows
  <1>6. CASE ConfigGet(c)
    <2>1. Fits(state, Makes(c, config.allow)) /\ UNCHANGED <<state, config>>
      BY <1>1, <1>6 DEF PairInv, PairParts, AtGet, ConfigGet
    <2>2. CASE pair[c].op = "pull"
      <3>1. Fits(state', config'.allow)
        BY <2>1, <2>2 DEF Makes
      <3>2. \/ pair'[c] = PairIdle
            \/ pair'[c].pc = "upsert" /\ pair'[c].of = config.allow
        <4>1. CASE config.allow = {}
          <5>1. Leaves(c)
            BY <1>6, <2>2, <4>1 DEF ConfigGet
          <5>2. QED
            BY <1>2, <5>1 DEF Leaves
        <4>2. CASE config.allow # {}
          <5>1. pair' = [pair EXCEPT ![c] = [[@ EXCEPT !.pc = "upsert"] EXCEPT !.of = config.allow]]
            BY <1>6, <2>2, <4>2 DEF ConfigGet
          <5>2. QED
            BY <1>2, <5>1 DEF PairStates
        <4>3. QED
          BY <4>1, <4>2
      <3>3. QED
        BY <1>4, <2>1, <3>1, <3>2, OneCallGoesOn DEF PairIdle
    <2>3. CASE pair[c].op # "pull"
      <3>1. pair'[c].pc = "patch" /\ pair'[c].read = config /\ pair'[c].op = pair[c].op
            /\ pair'[c].of = pair[c].of
        BY <1>2, <1>6, <2>3 DEF ConfigGet, PairStates
      <3>2. NewList(c)' = Makes(c, config.allow)
        BY <2>3, <3>1 DEF NewList, Makes
      <3>3. QED
        BY <1>4, <2>1, <3>1, <3>2, OneCallGoesOn
    <2>4. QED
      BY <2>2, <2>3
  <1>7. CASE ConfigPatch(c)
    <2>1. pair[c].read = config /\ Fits(state, NewList(c)) /\ state' = state
      BY <1>1, <1>7 DEF PairInv, PairParts, AtPatch, ConfigPatch
    <2>2. config'.allow = NewList(c)
      BY <1>2, <1>7, <2>1 DEF ConfigPatch, Configs
    <2>3. pair'[c] = PairIdle
      BY <1>2, <1>7 DEF ConfigPatch, Leaves
    <2>4. QED
      BY <1>4, <2>1, <2>2, <2>3, OneCallGoesOn DEF PairIdle
  <1>8. CASE PairThrows(c)
    BY <1>8 DEF PairThrows
  <1>9. ASSUME NEW s \in Senders, UpsertListed(c, s) PROVE PairParts'
    <2>1. Fits(state, config.allow) /\ pair[c].of \subseteq config.allow /\ s \in config.allow
          /\ config' = config
      BY <1>1, <1>9 DEF PairInv, PairParts, AtUpsert, UpsertListed
    <2>2. Fits(state', config'.allow)
      BY <1>9, <2>1 DEF UpsertListed, Put, Fits
    <2>3. \/ pair'[c] = PairIdle
          \/ pair'[c].pc = "upsert" /\ pair'[c].of = pair[c].of \ {s}
      BY <1>2, <1>9 DEF UpsertListed, Leaves, PairStates
    <2>4. QED
      BY <1>4, <2>1, <2>2, <2>3, OneCallGoesOn DEF PairIdle
  <1>10. QED
    BY <1>5, <1>6, <1>7, <1>8, <1>9

-----------------------------------------------------------------------------
(* The others *)

LEMMA ExpireParts ==
  ASSUME PairInv, pairCalm', NEW S \in SUBSET Senders, ExpireStale(S)
  PROVE  PairParts'
  <1>1. UNCHANGED <<pair, config, pairCalm>>
    BY DEF ExpireStale
  <1>2. \A x \in Senders : state'[x] \in {state[x], "EXPIRED"}
    BY DEF ExpireStale, Put, PairInv, PairTypeOK
  <1>3. ASSUME NEW allow, Fits(state, allow) PROVE Fits(state', allow)
    BY <1>2, <1>3 DEF Fits
  <1>4. \A c : Makes(c, config.allow)' = Makes(c, config.allow) /\ NewList(c)' = NewList(c)
    BY <1>1 DEF Makes, NewList
  <1>5. PairParts
    BY <1>1 DEF PairInv
  <1>6. Alone' /\ AtRest' /\ AtUpsert'
    BY <1>1, <1>3, <1>5 DEF PairParts, Alone, AtRest, AtUpsert, AllPairsIdle, Busy
  <1>7. AtRows'
    BY <1>1, <1>2, <1>3, <1>5 DEF PairParts, AtRows
  <1>8. AtGet' /\ AtPatch'
    BY <1>1, <1>3, <1>4, <1>5 DEF PairParts, AtGet, AtPatch
  <1>9. QED
    BY <1>6, <1>7, <1>8 DEF PairParts

LEMMA OtherParts ==
  ASSUME PairInv, pairCalm', OtherPatch \/ UNCHANGED pairVars
  PROVE  PairParts'
  <1>1. CASE OtherPatch
    <2>1. Fits(state, config.allow) /\ AllPairsIdle /\ UNCHANGED <<state, pair>>
      BY <1>1 DEF OtherPatch, PairInv, PairParts, AtRest
    <2>2. config'.allow = config.allow
      BY <1>1 DEF OtherPatch, PairInv, PairTypeOK, Configs
    <2>3. QED
      BY <2>1, <2>2
         DEF PairParts, Alone, AtRest, AtRows, AtGet, AtPatch, AtUpsert, AllPairsIdle, Busy, PairIdle
  <1>2. CASE UNCHANGED pairVars
    BY <1>2 DEF pairVars, PairInv, PairParts, Alone, AtRest, AtRows, AtGet, AtPatch, AtUpsert,
                AllPairsIdle, Busy, Makes, NewList
  <1>3. QED
    BY <1>1, <1>2

-----------------------------------------------------------------------------
(* Every step *)

\* Every call begins in the way that BeginTypes and BeginParts speak of.
LEMMA CallsBegin ==
  ASSUME PairTypeOK, NEW c \in PairCalls,
         \/ \E s \in Senders : \/ ApprovePairing(c, s) \/ RejectPairing(c, s) \/ RevokePairing(c, s)
                              \/ ApproveByCode(c, s) \/ CreatePendingPairing(c, s)
         \/ BatchApproveAll(c) \/ SyncPairingsFromGateway(c)
  PROVE  \E op \in GatewayOps \cup {"reject", "create", "pull"}, S \in SUBSET Senders,
            pc \in {"rows", "get"} :
           /\ op = "pull" <=> pc = "get"
           /\ op = "batch" => S = In("PENDING")
           /\ Begin(c, op, S, pc)
  <1>1. ASSUME NEW s \in Senders, ApprovePairing(c, s) \/ RejectPairing(c, s) \/ RevokePairing(c, s)
                                   \/ ApproveByCode(c, s) \/ CreatePendingPairing(c, s)
        PROVE  \E op \in {"approve", "code", "revoke", "reject", "create"} : Begin(c, op, {s}, "rows")
    BY <1>1 DEF ApprovePairing, RejectPairing, RevokePairing, ApproveByCode, CreatePendingPairing
  <1>2. ASSUME NEW s \in Senders PROVE {s} \in SUBSET Senders
    OBVIOUS
  <1>3. BatchApproveAll(c) => Begin(c, "batch", In("PENDING"), "rows")
    BY DEF BatchApproveAll
  <1>4. In("PENDING") \in SUBSET Senders
    BY DEF In
  <1>5. SyncPairingsFromGateway(c) => Begin(c, "pull", {}, "get")
    BY DEF SyncPairingsFromGateway
  <1>6. CASE BatchApproveAll(c)
    BY <1>3, <1>4, <1>6 DEF GatewayOps
  <1>7. CASE SyncPairingsFromGateway(c)
    BY <1>5, <1>7 DEF GatewayOps
  <1>8. CASE \E s \in Senders : \/ ApprovePairing(c, s) \/ RejectPairing(c, s) \/ RevokePairing(c, s)
                              \/ ApproveByCode(c, s) \/ CreatePendingPairing(c, s)
    <2>1. PICK s \in Senders : \E op \in {"approve", "code", "revoke", "reject", "create"} :
                                 Begin(c, op, {s}, "rows")
      BY <1>1, <1>8
    <2>2. PICK op \in {"approve", "code", "revoke", "reject", "create"} : Begin(c, op, {s}, "rows")
      BY <2>1
    <2>3. op \in GatewayOps \cup {"reject", "create", "pull"} /\ op # "pull" /\ op # "batch"
      BY DEF GatewayOps
    <2>4. QED
      BY <1>2, <2>2, <2>3
  <1>9. QED
    BY <1>6, <1>7, <1>8

LEMMA PairInvStep == PairInv /\ [PairNext]_pairVars => PairInv'
  <1> SUFFICES ASSUME PairInv, [PairNext]_pairVars PROVE PairInv'
    OBVIOUS
  <1>0. PairTypeOK /\ CallsAreWell
    BY DEF PairInv
  <1>1. ASSUME NEW c \in PairCalls, NEW op \in GatewayOps \cup {"reject", "create", "pull"},
               NEW S \in SUBSET Senders, NEW pc \in {"rows", "get"}, op = "pull" <=> pc = "get",
               op = "batch" => S = In("PENDING"), Begin(c, op, S, pc)
        PROVE  PairInv'
    BY <1>0, <1>1, BeginTypes, BeginParts DEF PairInv
  <1>2. ASSUME NEW c \in PairCalls,
               \/ WriteRows(c) \/ ConfigGet(c) \/ ConfigPatch(c) \/ PairThrows(c)
               \/ \E s \in Senders : UpsertListed(c, s)
        PROVE  PairInv'
    BY <1>0, <1>2, CallTypes, CallParts DEF PairInv
  <1>3. ASSUME NEW S \in SUBSET Senders, ExpireStale(S) PROVE PairInv'
    BY <1>0, <1>3, OtherTypes, ExpireParts DEF PairInv
  <1>4. CASE OtherPatch \/ UNCHANGED pairVars
    BY <1>0, <1>4, OtherTypes, OtherParts DEF PairInv
  <1>5. QED
    BY <1>0, <1>1, <1>2, <1>3, <1>4, CallsBegin DEF PairNext

\* Type correctness of the pairings and of the calls that change them.
THEOREM PairTypes == PairSpec => []PairTypeOK
  <1>1. PairInv => PairTypeOK
    BY DEF PairInv
  <1>2. QED
    BY <1>1, PairInvInit, PairInvStep, PTL DEF PairSpec

\* Calls of PairingService that do not overlap and do not fail leave the rows and the
\* gateway's allowFrom list in agreement, however many senders and calls there are.
THEOREM RowsAgree == PairSpec => []RowsMatchGateway
  <1>1. PairInv => RowsMatchGateway
    BY DEF PairInv, PairParts, AtRest, Fits, RowsMatchGateway, In
  <1>2. QED
    BY <1>1, PairInvInit, PairInvStep, PTL DEF PairSpec

-----------------------------------------------------------------------------
(* The patch *)

LEMMA PatchIsAtomic ==
  ASSUME PairInv, [PairNext]_pairVars, NEW c \in PairCalls,
         pair[c].pc = "patch", pair'[c] = PairIdle, config' # config
  PROVE  /\ config'.rest = config.rest
         /\ config'.allow = IF pair[c].op = "revoke" THEN config.allow \ pair[c].of
                            ELSE config.allow \cup pair[c].of
  <1>1. pair \in [PairCalls -> PairStates] /\ config \in Configs /\ pair'[c] # pair[c]
    BY DEF PairInv, PairTypeOK, PairIdle
  <1>2. \A d \in PairCalls : ConfigPatch(d) => d = c
    BY <1>1 DEF ConfigPatch, Leaves
  <1>3. OtherPatch => pair' = pair
    BY DEF OtherPatch
  <1>4. ConfigPatch(c)
    BY <1>1, <1>2, <1>3
       DEF PairNext, pairVars, ApprovePairing, RejectPairing, RevokePairing, ApproveByCode,
           CreatePendingPairing, BatchApproveAll, SyncPairingsFromGateway, Begin, UpsertListed,
           WriteRows, ConfigGet, PairThrows, ExpireStale
  <1>5. pair[c].read = config /\ config' = [config EXCEPT !.allow = NewList(c)]
    BY <1>4 DEF ConfigPatch
  <1>6. QED
    BY <1>1, <1>5 DEF Configs, NewList

\* A patch of the list takes effect as if it had been read and written in one step: the hash
\* that goes with it keeps two calls, or another writer, from undoing each other.
THEOREM PatchesAreAtomic == PairSpec => NoLostListUpdate
  <1>1. PairInv /\ [PairNext]_pairVars =>
          [\A c \in PairCalls :
             pair[c].pc = "patch" /\ pair'[c] = PairIdle /\ config' # config
               => /\ config'.rest = config.rest
                  /\ config'.allow = IF pair[c].op = "revoke" THEN config.allow \ pair[c].of
                                     ELSE config.allow \cup pair[c].of]_pairVars
    BY PatchIsAtomic
  <1>2. QED
    BY <1>1, PairInvInit, PairInvStep, PTL DEF PairSpec, NoLostListUpdate

-----------------------------------------------------------------------------
(* Provisioning: for any runs, lines, limits and network failures *)

Page == [open : BOOLEAN, socket : {"off", "opening", "on"}, joined : BOOLEAN,
         polls : BOOLEAN, answer : {"none", "unknown", "in_progress"} \cup Ended,
         fails : 0..MaxPollFails, retry : BOOLEAN, attempts : 0..MaxReconnects,
         hangUp : BOOLEAN, got : [Lines -> 0..2]]

\* A page in the room has each buffered line once and none that was not
\* printed; one that is not in it has none over this connection.
Followed ==
  /\ page.joined => /\ \A i \in DOMAIN buffer : page.got[buffer[i]] = 1
                    /\ \A l \in Lines : page.got[l] <= 1
                    /\ \A l \in Lines : l > printed => page.got[l] = 0
  /\ ~page.joined => \A l \in Lines : page.got[l] = 0
  /\ \A i \in DOMAIN buffer : buffer[i] <= printed

ProvInv == ProvTypeOK /\ Followed

\* The part of the type that is not about the page or the lines.
ServerTyped ==
  /\ record \in [status : {"none", "in_progress"} \cup Ended, run : ProvRuns \cup {NoRun}]
  /\ timers \in SUBSET [kind : {"timeout", "deleteEnded", "deleteTimedOut"}, run : ProvRuns]
  /\ current \in ProvRuns \cup {NoRun}
  /\ runs \in SUBSET ProvRuns /\ unused \in SUBSET ProvRuns
  /\ rowError \in BOOLEAN

LinesTyped == buffer \in Seq(Lines) /\ Len(buffer) <= LogCap /\ printed \in 0..LogLines

LEMMA ProvTypeParts ==
  ProvTypeOK <=> ServerTyped /\ LinesTyped /\ page \in Page /\ drops \in 0..ProvDrops
  BY DEF ProvTypeOK, ServerTyped, LinesTyped, Page

\* An emission of progress changes of the page only whether it will hang up.
LEMMA EmitKeeps ==
  ASSUME page \in Page, NEW status, Emit(status)
  PROVE  page' \in Page /\ page'.joined = page.joined /\ page'.got = page.got
  BY DEF Emit, Page

LEMMA PageGoneTyped ==
  /\ PageGone \in Page /\ ~PageGone.joined /\ \A l \in Lines : PageGone.got[l] = 0
  BY ProvAssumption DEF PageGone, Page

LEMMA LoseKeeps ==
  ASSUME page \in Page, page' = Lose(page)
  PROVE  page' \in Page /\ ~page'.joined /\ \A l \in Lines : page'.got[l] = 0
  <1>1. (IF page.attempts < MaxReconnects THEN page.attempts + 1 ELSE page.attempts)
          \in 0..MaxReconnects
    BY ProvAssumption DEF Page
  <1>2. (page.attempts < MaxReconnects) \in BOOLEAN
    OBVIOUS
  <1>3. [l \in Lines |-> 0] \in [Lines -> 0..2]
    OBVIOUS
  <1>4. QED
    BY <1>1, <1>2, <1>3 DEF Lose, Page

\* The steps of the server that print and show no line.
LEMMA ServerStep ==
  ASSUME ProvInv, NEW r \in ProvRuns,
         \/ Start(r) \/ UpdateStep(r) \/ \E s \in {"completed", "error"} : End(r, s)
         \/ Timeout(r) \/ Delete(r)
  PROVE  ProvInv'
  <1>0. ServerTyped /\ LinesTyped /\ page \in Page /\ drops \in 0..ProvDrops
    BY ProvTypeParts DEF ProvInv
  <1>1. UNCHANGED <<printed, drops>> /\ (buffer' = buffer \/ buffer' = <<>>)
    BY DEF Start, UpdateStep, End, Timeout, Delete
  <1>2. page' \in Page /\ page'.joined = page.joined /\ page'.got = page.got
    BY <1>0, EmitKeeps DEF Start, UpdateStep, End, Timeout, Delete
  <1>3. /\ record' \in [status : {"none", "in_progress"} \cup Ended, run : ProvRuns \cup {NoRun}]
        /\ current' \in ProvRuns \cup {NoRun}
        /\ runs' \in SUBSET ProvRuns /\ unused' \in SUBSET ProvRuns
    BY <1>0 DEF ServerTyped, Start, UpdateStep, End, Timeout, Delete, NoRecord, Ended
  <1>4. timers' \in SUBSET [kind : {"timeout", "deleteEnded", "deleteTimedOut"}, run : ProvRuns]
    BY <1>0 DEF ServerTyped, Start, UpdateStep, End, Timeout, Delete, Timer
  <1>5. rowError' \in BOOLEAN
    <2>1. CASE \E s \in {"completed", "error"} : End(r, s)
      BY <2>1, Zenon DEF End
    <2>2. CASE Start(r)
      BY <2>2, Zenon DEF Start
    <2>3. CASE UpdateStep(r) \/ Timeout(r) \/ Delete(r)
      BY <1>0, <2>3, Zenon DEF UpdateStep, Timeout, Delete, ServerTyped
    <2>4. QED
      BY <2>1, <2>2, <2>3
  <1>6. LinesTyped' /\ drops' \in 0..ProvDrops
    <2>1. buffer' \in Seq(Lines) /\ Len(buffer') <= LogCap
      <3>1. CASE buffer' = <<>>
        BY <3>1, ProvAssumption
      <3>2. CASE buffer' = buffer
        BY <1>0, <3>2 DEF LinesTyped
      <3>3. QED
        BY <1>1, <3>1, <3>2
    <2>2. QED
      BY <1>0, <1>1, <2>1 DEF LinesTyped
  <1>7. ServerTyped'
    BY <1>3, <1>4, <1>5 DEF ServerTyped
  <1>8. Followed'
    BY <1>1, <1>2 DEF ProvInv, Followed
  <1>9. ProvTypeOK'
    BY <1>2, <1>6, <1>7, Zenon DEF ProvTypeOK, ServerTyped, LinesTyped, Page
  <1>10. QED
    BY <1>8, <1>9 DEF ProvInv

\* A line is new to the page and to the buffer.
LEMMA EmitLogStep ==
  ASSUME ProvInv, NEW r \in ProvRuns, EmitLog(r)
  PROVE  ProvInv'
  <1>0. /\ ServerTyped /\ LinesTyped /\ page \in Page /\ drops \in 0..ProvDrops
        /\ UNCHANGED <<record, timers, current, runs, unused, drops>> /\ rowError' = rowError
    BY ProvTypeParts, Zenon DEF ProvInv, EmitLog
  <1>1. printed' = printed + 1 /\ printed' \in Lines
    BY <1>0, ProvAssumption DEF EmitLog, LinesTyped, Lines
  <1>2. /\ buffer' \in Seq(Lines) /\ Len(buffer') <= LogCap
        /\ \A i \in DOMAIN buffer' : buffer'[i] = printed' \/ \E j \in DOMAIN buffer : buffer'[i] = buffer[j]
    <2> DEFINE longer == Append(buffer, printed')
    <2>1. /\ longer \in Seq(Lines) /\ Len(longer) = Len(buffer) + 1
          /\ \A i \in DOMAIN longer : longer[i] = printed' \/ (i \in DOMAIN buffer /\ longer[i] = buffer[i])
      BY <1>0, <1>1 DEF LinesTyped
    <2>2. longer # <<>>
      BY <2>1, <1>0 DEF LinesTyped
    <2>3. CASE Len(longer) > LogCap
      <3>1. buffer' = Tail(longer)
        BY <2>3 DEF EmitLog
      <3>2. /\ Tail(longer) \in Seq(Lines) /\ Len(Tail(longer)) = Len(longer) - 1
            /\ \A i \in DOMAIN Tail(longer) : i + 1 \in DOMAIN longer /\ Tail(longer)[i] = longer[i + 1]
        BY <2>1, <2>2
      <3>3. QED
        BY <1>0, <2>1, <3>1, <3>2, ProvAssumption DEF LinesTyped
    <2>4. CASE ~(Len(longer) > LogCap)
      <3>1. buffer' = longer
        BY <2>4 DEF EmitLog
      <3>2. QED
        BY <1>0, <2>1, <2>4, <3>1, ProvAssumption DEF LinesTyped
    <2>5. QED
      BY <2>3, <2>4
  <1>3. \A j \in DOMAIN buffer : buffer[j] \in Lines /\ buffer[j] <= printed
    BY <1>0 DEF ProvInv, Followed, LinesTyped
  <1>4. CASE page.joined
    <2>1. page' = [page EXCEPT !.got[printed'] = @ + 1]
      BY <1>4 DEF EmitLog
    <2>2. page.got[printed'] = 0
      BY <1>0, <1>1, <1>4 DEF ProvInv, Followed, LinesTyped, Lines
    <2>3. /\ page'.joined = page.joined /\ page'.got = [page.got EXCEPT ![printed'] = 1]
          /\ page' \in Page
      BY <1>0, <1>1, <2>1, <2>2 DEF Page
    <2>4. page'.got[printed'] = 1 /\ \A l \in Lines : l # printed' => page'.got[l] = page.got[l]
      BY <1>0, <1>1, <2>3 DEF Page
    <2>5. \A i \in DOMAIN buffer' : page'.got[buffer'[i]] = 1 /\ buffer'[i] <= printed'
      <3>1. \A j \in DOMAIN buffer : /\ page.got[buffer[j]] = 1 /\ buffer[j] # printed'
                                    /\ buffer[j] <= printed' /\ buffer[j] \in Lines
        BY <1>0, <1>1, <1>3, <1>4 DEF ProvInv, Followed, LinesTyped, Lines
      <3>2. printed' <= printed'
        BY <1>1 DEF Lines
      <3>3. QED
        BY <1>2, <2>4, <3>1, <3>2
    <2>6. \A l \in Lines : page'.got[l] <= 1 /\ (l > printed' => page'.got[l] = 0)
      BY <1>0, <1>1, <1>4, <2>4 DEF ProvInv, Followed, LinesTyped, Lines
    <2>7. Followed'
      BY <1>4, <2>3, <2>5, <2>6 DEF Followed
    <2>8. LinesTyped' /\ ServerTyped'
      BY <1>0, <1>1, <1>2 DEF LinesTyped, ServerTyped, Lines
    <2>9. ProvTypeOK'
      BY <1>0, <2>3, <2>8, Zenon DEF ProvTypeOK, ServerTyped, LinesTyped, Page
    <2>10. QED
      BY <2>7, <2>9 DEF ProvInv
  <1>5. CASE ~page.joined
    <2>1. page' = page
      BY <1>5 DEF EmitLog
    <2>2. \A i \in DOMAIN buffer' : buffer'[i] <= printed'
      BY <1>0, <1>1, <1>2, <1>3 DEF LinesTyped, Lines
    <2>3. Followed'
      BY <1>5, <2>1, <2>2 DEF ProvInv, Followed
    <2>4. LinesTyped' /\ ServerTyped'
      BY <1>0, <1>1, <1>2 DEF LinesTyped, ServerTyped, Lines
    <2>5. ProvTypeOK'
      BY <1>0, <2>1, <2>4, Zenon DEF ProvTypeOK, ServerTyped, LinesTyped, Page
    <2>6. QED
      BY <2>3, <2>5 DEF ProvInv
  <1>6. QED
    BY <1>4, <1>5

\* The steps of the page and of its socket.
LEMMA PageStep ==
  ASSUME ProvInv,
         \/ OpenPage \/ ClosePage \/ Subscribe \/ Poll \/ PollAnswered \/ PollFails
         \/ Connect \/ ConnectError \/ Disconnect \/ HangUp \/ Reconnect
  PROVE  ProvInv'
  <1>0. /\ ServerTyped /\ LinesTyped /\ page \in Page /\ drops \in 0..ProvDrops
        /\ UNCHANGED <<record, timers, current, runs, unused, buffer, printed>>
        /\ rowError' = rowError
    BY ProvTypeParts, Zenon
       DEF ProvInv, OpenPage, ClosePage, Subscribe, Poll, PollAnswered, PollFails, Connect,
           ConnectError, Disconnect, HangUp, Reconnect, OnlyPage
  <1>1. drops' \in 0..ProvDrops
    BY <1>0, ProvAssumption
       DEF OpenPage, ClosePage, Subscribe, Poll, PollAnswered, PollFails, Connect,
           ConnectError, Disconnect, HangUp, Reconnect, Drop
  <1>2. ServerTyped' /\ LinesTyped'
    BY <1>0 DEF ServerTyped, LinesTyped
  <1>3. ASSUME page' \in Page, Followed' PROVE ProvInv'
    <2>1. ProvTypeOK'
      BY <1>1, <1>2, <1>3, Zenon DEF ProvTypeOK, ServerTyped, LinesTyped, Page
    <2>2. QED
      BY <1>3, <2>1 DEF ProvInv
  <1>4. ASSUME page' \in Page, ~page'.joined, \A l \in Lines : page'.got[l] = 0
        PROVE  ProvInv'
    BY <1>0, <1>3, <1>4 DEF ProvInv, Followed
  <1>5. ASSUME page' \in Page, page'.joined = page.joined, page'.got = page.got
        PROVE  ProvInv'
    BY <1>0, <1>3, <1>5 DEF ProvInv, Followed
  <1>6. CASE OpenPage
    BY <1>4, <1>6, PageGoneTyped DEF OpenPage, Page
  <1>7. CASE ClosePage
    BY <1>4, <1>7, PageGoneTyped DEF ClosePage
  <1>8. CASE Disconnect \/ HangUp
    BY <1>0, <1>4, <1>8, LoseKeeps DEF Disconnect, HangUp
  <1>9. CASE Subscribe
    <2> DEFINE seen == [l \in Lines |-> IF \E i \in DOMAIN buffer : buffer[i] = l
                                        THEN page.got[l] + 1 ELSE page.got[l]]
    <2>1. \A l \in Lines : page.got[l] = 0
      BY <1>9 DEF Subscribe, ProvInv, Followed
    <2>2. /\ seen \in [Lines -> 0..2]
          /\ \A l \in Lines : seen[l] = IF \E i \in DOMAIN buffer : buffer[i] = l THEN 1 ELSE 0
      BY <2>1
    <2>3. page' = [page EXCEPT !.joined = TRUE, !.got = seen]
      BY <1>9 DEF Subscribe
    <2> HIDE DEF seen
    <2>4. page' \in Page /\ page'.joined /\ page'.got = seen
      BY <1>0, <2>2, <2>3 DEF Page
    <2>5. \A i \in DOMAIN buffer : buffer[i] \in Lines /\ buffer[i] <= printed
      BY <1>0 DEF ProvInv, Followed, LinesTyped
    <2>6. \A i \in DOMAIN buffer : seen[buffer[i]] = 1
      BY <2>2, <2>5
    <2>7. \A l \in Lines : seen[l] <= 1 /\ (l > printed => seen[l] = 0)
      BY <1>0, <2>2, <2>5 DEF LinesTyped, Lines
    <2>8. Followed'
      BY <1>0, <2>4, <2>5, <2>6, <2>7 DEF Followed
    <2>9. QED
      BY <1>3, <2>4, <2>8
  <1>10. CASE Poll
    <2>1. record.status \in {"none", "in_progress"} \cup Ended
      BY <1>0 DEF ServerTyped
    <2>2. PICK a \in {"none", "unknown", "in_progress"} \cup Ended :
            page' = [page EXCEPT !.answer = a]
      BY <1>10, <2>1 DEF Poll, Ended
    <2>3. QED
      BY <1>0, <1>5, <2>2 DEF Page
  <1>11. CASE PollAnswered
    <2>1. PICK b \in BOOLEAN :
            page' = [page EXCEPT !.answer = "none", !.fails = 0, !.polls = b]
      BY <1>11 DEF PollAnswered
    <2>2. 0 \in 0..MaxPollFails
      BY ProvAssumption
    <2>3. QED
      BY <1>0, <1>5, <2>1, <2>2 DEF Page
  <1>12. CASE PollFails
    <2>1. PICK n \in 0..MaxPollFails, b \in BOOLEAN :
            page' = [page EXCEPT !.fails = n, !.polls = b]
      <3>1. CASE page.fails + 1 < MaxPollFails
        <4>1. page' = [page EXCEPT !.fails = page.fails + 1, !.polls = page.polls]
          BY <1>0, <1>12, <3>1 DEF PollFails, Page
        <4>2. page.fails + 1 \in 0..MaxPollFails /\ page.polls \in BOOLEAN
          BY <1>0, <3>1, ProvAssumption DEF Page
        <4>3. QED
          BY <4>1, <4>2
      <3>2. CASE ~(page.fails + 1 < MaxPollFails)
        <4>1. page' = [page EXCEPT !.fails = MaxPollFails, !.polls = FALSE]
          BY <1>12, <3>2 DEF PollFails
        <4>2. MaxPollFails \in 0..MaxPollFails
          BY ProvAssumption
        <4>3. QED
          BY <4>1, <4>2
      <3>3. QED
        BY <3>1, <3>2
    <2>2. QED
      BY <1>0, <1>5, <2>1 DEF Page
  <1>13. CASE Connect \/ ConnectError \/ Reconnect
    <2>1. CASE Connect
      <3>1. page' = [page EXCEPT !.socket = "on", !.attempts = 0, !.polls = FALSE]
        BY <2>1 DEF Connect
      <3>2. 0 \in 0..MaxReconnects
        BY ProvAssumption
      <3>3. QED
        BY <1>0, <1>5, <3>1, <3>2 DEF Page
    <2>2. CASE ConnectError
      <3>1. page' = [page EXCEPT !.socket = "off", !.polls = TRUE]
        BY <2>2 DEF ConnectError
      <3>2. QED
        BY <1>0, <1>5, <3>1 DEF Page
    <2>3. CASE Reconnect
      <3>1. page' = [page EXCEPT !.retry = FALSE, !.socket = "opening"]
        BY <2>3 DEF Reconnect
      <3>2. QED
        BY <1>0, <1>5, <3>1 DEF Page
    <2>4. QED
      BY <1>13, <2>1, <2>2, <2>3
  <1>14. QED
    BY <1>6, <1>7, <1>8, <1>9, <1>10, <1>11, <1>12, <1>13

\* For any number of runs, lines, reconnections and network failures: a page in
\* the room has received each buffered line exactly once and none twice.
THEOREM PageSeesEachLineOnce == ProvSpec => [](ProvTypeOK /\ JoinedSeesEachLineOnce)
  <1>1. ProvInit => ProvInv
    <2> SUFFICES ASSUME ProvInit PROVE ProvInv
      OBVIOUS
    <2>1. rowError \in BOOLEAN
      BY Zenon DEF ProvInit
    <2>2. ServerTyped
      BY <2>1 DEF ProvInit, ServerTyped, NoRecord
    <2>3. LinesTyped /\ drops \in 0..ProvDrops
      BY ProvAssumption DEF ProvInit, LinesTyped
    <2>4. page \in Page /\ ~page.joined /\ \A l \in Lines : page.got[l] = 0
      BY PageGoneTyped DEF ProvInit
    <2>5. buffer = <<>>
      BY DEF ProvInit
    <2>6. QED
      BY <2>2, <2>3, <2>4, <2>5, ProvTypeParts DEF ProvInv, Followed
  <1>2. ProvInv /\ [ProvNext]_provVars => ProvInv'
    <2>1. ProvInv /\ UNCHANGED provVars => ProvInv'
      BY DEF provVars, ProvInv, ProvTypeOK, Followed
    <2>2. QED
      BY <2>1, ServerStep, EmitLogStep, PageStep DEF ProvNext
  <1>3. ProvInv => ProvTypeOK /\ JoinedSeesEachLineOnce
    BY DEF ProvInv, Followed, JoinedSeesEachLineOnce
  <1>4. QED
    BY <1>1, <1>2, <1>3, PTL DEF ProvSpec
=============================================================================
