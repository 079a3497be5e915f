-------------------------- MODULE BackupSystemProofs --------------------------
(***************************************************************************)
(* Theorems about BackupSystem, for any sets of names and Jobs, any        *)
(* bounds, and with or without finalizers.                         *)
(***************************************************************************)
EXTENDS BackupSystem, TLAPS

-----------------------------------------------------------------------------
(* The inductive invariant.                                                *)

Busy(j) == worker[j].pc \in {"loaded", "stored", "failing"}

\* What j stored is under a path of its object, where others find it in S3.
StoredBy(j) ==
  /\ worker[j].location \in PathsOf(j)
  /\ Shared(j, worker[j].location) \subseteq store

\* A holder whose resourceVersion is the current one holds the current object.
ManagerCopies ==
  \A b \in Backups :
    /\ "cache" \in fresh[b] => cached[b] = backup[b]
    /\ rec[b].pc # "idle" =>
         /\ Exists(rec[b].obj)
         /\ "reconciler" \in fresh[b] => rec[b].obj = backup[b]

\* So does a worker, for the object its Job names; and what it reports as
\* stored is in storage.
WorkerCopies ==
  \A j \in JobIds :
    Busy(j) =>
      /\ jobs[j].backup \in Backups
      /\ Exists(worker[j].obj)
      /\ j \in fresh[jobs[j].backup] => worker[j].obj = backup[jobs[j].backup]
      /\ worker[j].pc = "stored" => StoredBy(j)

\* A location that incarnation u of b may show when the artifacts st are in
\* storage: see PublishedArtifactSound.
SoundFor(l, b, u, st) ==
  l # NoLocation =>
    /\ l.backup = b
    /\ l \in PodLocations \/ \E a \in st : a.location = l /\ a.uid = u

IInv == TypeOK /\ ManagerCopies /\ WorkerCopies /\ PublishedArtifactSound

-----------------------------------------------------------------------------
(* Types of what the operations write.                                     *)

LEMMA AbsentFacts == ~Exists(Absent) /\ Absent.status \in Statuses
  BY NoLocationAssumption, BoundsAssumption
     DEF Absent, Exists, Statuses, NewStatus, Phases

LEMMA StatusTypes ==
  ASSUME NEW o \in Objects \cup {Absent}
  PROVE  /\ o.status \in Statuses
         /\ RunningStatus(o) \in Statuses
         /\ CompletedStatus(o) \in Statuses
         /\ FailedStatus(o) \in Statuses
         /\ WorkerFailedStatus(o) \in Statuses
         /\ \A l \in Locations : WorkerCompletedStatus(o, l) \in Statuses
<1>1. o.status \in Statuses
  BY AbsentFacts DEF Objects
<1>2. o.generation \in 0..MaxGeneration
  BY BoundsAssumption DEF Objects, Absent, Generations
<1> QED
  BY <1>1, <1>2 DEF Statuses, Phases, RunningStatus, CompletedStatus,
     FailedStatus, WorkerFailedStatus, WorkerCompletedStatus

\* No status the controllers write changes the artifact location.
LEMMA ControllerKeepsLocation ==
  ASSUME NEW o \in Objects \cup {Absent}
  PROVE  /\ RunningStatus(o).artifactLocation = o.status.artifactLocation
         /\ CompletedStatus(o).artifactLocation = o.status.artifactLocation
         /\ FailedStatus(o).artifactLocation = o.status.artifactLocation
         /\ WorkerFailedStatus(o).artifactLocation = o.status.artifactLocation
  BY StatusTypes DEF Statuses, RunningStatus, CompletedStatus, FailedStatus,
     WorkerFailedStatus

LEMMA ExistingObjects ==
  ASSUME NEW o \in Objects \cup {Absent}, Exists(o)
  PROVE  o \in Objects
  BY AbsentFacts

LEMMA InitIInv == Init => IInv
<1> SUFFICES ASSUME Init PROVE IInv
  OBVIOUS
<1>1. TypeOK
  BY AbsentFacts, BoundsAssumption DEF Init, TypeOK, Holders, Idle, ReconcileStates, JobRecords,
     NotStarted, WorkerStates, WorkerRecords
<1>2. ManagerCopies
  BY DEF Init, ManagerCopies, Idle
<1>3. WorkerCopies
  BY DEF Init, WorkerCopies, Busy, NotStarted
<1>4. PublishedArtifactSound
  BY DEF Init, PublishedArtifactSound, Absent, NewStatus
<1> QED
  BY <1>1, <1>2, <1>3, <1>4 DEF IInv

-----------------------------------------------------------------------------
(* What a write to an object changes.                                      *)

LEMMA PutFacts ==
  ASSUME TypeOK, NEW b \in Backups, NEW o \in Objects \cup {Absent}, Put(b, o)
  PROVE  /\ backup' \in [Backups -> Objects \cup {Absent}]
         /\ fresh' \in [Backups -> SUBSET Holders]
         /\ backup'[b] = o /\ fresh'[b] = {}
         /\ \A c \in Backups \ {b} :
              backup'[c] = backup[c] /\ fresh'[c] = fresh[c]
  BY DEF TypeOK, Put

\* An accepted status update changes the status only, and leaves no stale copy
\* that looks current.
LEMMA UpdateFacts ==
  ASSUME TypeOK, NEW b \in Backups, NEW h, NEW s \in Statuses,
         UpdateStatus(h, b, s)
  PROVE  /\ backup[b] \in Objects /\ h \in fresh[b]
         /\ backup' \in [Backups -> Objects \cup {Absent}]
         /\ fresh' \in [Backups -> SUBSET Holders]
         /\ \A c \in Backups :
              /\ fresh'[c] \subseteq fresh[c]
              /\ fresh'[c] # {} => backup'[c] = backup[c]
         /\ \A c \in Backups \ {b} : backup'[c] = backup[c]
         /\ backup'[b] = [backup[b] EXCEPT !.status = s]
<1>1. backup[b] \in Objects /\ h \in fresh[b]
  BY ExistingObjects DEF TypeOK, UpdateStatus, UpdateAccepted
<1>2. [backup[b] EXCEPT !.status = s] \in Objects
  BY <1>1 DEF Objects
<1>3. CASE Put(b, [backup[b] EXCEPT !.status = s])
  BY <1>1, <1>2, <1>3, PutFacts
<1>4. CASE s = backup[b].status /\ UNCHANGED <<backup, fresh>>
  <2>1. [backup[b] EXCEPT !.status = s] = backup[b]
    BY <1>1, <1>4 DEF Objects
  <2> QED
    BY <1>1, <1>4, <2>1 DEF TypeOK
<1> QED
  BY <1>3, <1>4 DEF UpdateStatus

-----------------------------------------------------------------------------
(* The invariant is kept by every action: the users' actions first.        *)

\* A write by a user: copies become stale, the location stays or is empty.
LEMMA UserWrite ==
  ASSUME IInv, NEW b \in Backups, NEW o \in Objects \cup {Absent}, Put(b, o),
         lastUid' \in 0..MaxUid,
         UNCHANGED <<cached, queue, rec, jobs, cachedJobs, worker, store>>,
         \/ o.status.artifactLocation = NoLocation
         \/ /\ o.status.artifactLocation = backup[b].status.artifactLocation
            /\ o.uid = backup[b].uid
  PROVE  IInv'
<1>1. /\ backup' \in [Backups -> Objects \cup {Absent}]
      /\ fresh' \in [Backups -> SUBSET Holders]
      /\ backup'[b] = o /\ fresh'[b] = {}
      /\ \A c \in Backups \ {b} : backup'[c] = backup[c] /\ fresh'[c] = fresh[c]
  BY PutFacts DEF IInv
<1>2. TypeOK'
  BY <1>1 DEF IInv, TypeOK
<1>3. ManagerCopies'
  BY <1>1 DEF IInv, ManagerCopies
<1>4. WorkerCopies'
  BY <1>1 DEF IInv, WorkerCopies, Busy, StoredBy, PathsOf, Shared, ArtifactAt
<1>5. PublishedArtifactSound'
  BY <1>1 DEF IInv, PublishedArtifactSound
<1> QED
  BY <1>2, <1>3, <1>4, <1>5 DEF IInv

LEMMA UserKeepsIInv ==
  ASSUME IInv, NEW b \in Backups, UserStep(b)
  PROVE  IInv'
<1>1. CASE CreateBackup(b)
  <2> DEFINE o == [uid |-> lastUid + 1, generation |-> 1, deleting |-> FALSE,
                   status |-> NewStatus]
  <2>1. o \in Objects /\ lastUid' \in 0..MaxUid
    BY <1>1, BoundsAssumption, AbsentFacts
       DEF CreateBackup, IInv, TypeOK, Objects, Uids, Generations, Absent
  <2>2. o.status.artifactLocation = NoLocation
    BY DEF NewStatus
  <2>3. Put(b, o) /\ UNCHANGED <<cached, queue, rec, jobs, cachedJobs, worker, store>>
    BY <1>1 DEF CreateBackup
  <2> HIDE DEF o
  <2> QED
    BY <2>1, <2>2, <2>3, UserWrite
<1>2. CASE EditBackup(b)
  <2> DEFINE o == [backup[b] EXCEPT !.generation = @ + 1]
  <2>1. backup[b] \in Objects /\ backup[b].generation < MaxGeneration
    BY <1>2, ExistingObjects DEF EditBackup, IInv, TypeOK
  <2>2. /\ o \in Objects
        /\ o.status = backup[b].status /\ o.uid = backup[b].uid
    BY <2>1, BoundsAssumption DEF Objects, Generations
  <2>3. /\ Put(b, o) /\ UNCHANGED <<cached, queue, rec, jobs, cachedJobs, worker, store>>
        /\ lastUid' \in 0..MaxUid
    BY <1>2 DEF EditBackup, IInv, TypeOK
  <2> HIDE DEF o
  <2> QED
    BY <2>2, <2>3, UserWrite
<1>3. CASE MarkDeleting(b)
  <2> DEFINE o == [backup[b] EXCEPT !.deleting = TRUE]
  <2>1. backup[b] \in Objects
    BY <1>3, ExistingObjects DEF MarkDeleting, IInv, TypeOK
  <2>2. /\ o \in Objects
        /\ o.status = backup[b].status /\ o.uid = backup[b].uid
    BY <2>1 DEF Objects
  <2>3. /\ Put(b, o) /\ UNCHANGED <<cached, queue, rec, jobs, cachedJobs, worker, store>>
        /\ lastUid' \in 0..MaxUid
    BY <1>3 DEF MarkDeleting, IInv, TypeOK
  <2> HIDE DEF o
  <2> QED
    BY <2>2, <2>3, UserWrite
<1>4. CASE DeleteBackup(b)
  <2>1. /\ Put(b, Absent) /\ UNCHANGED <<cached, queue, rec, jobs, cachedJobs, worker, store>>
        /\ lastUid' \in 0..MaxUid
    BY <1>4 DEF DeleteBackup, IInv, TypeOK
  <2>2. Absent.status.artifactLocation = NoLocation
    BY DEF Absent, NewStatus
  <2> QED
    BY <2>1, <2>2, UserWrite
<1> QED
  BY <1>1, <1>2, <1>3, <1>4 DEF UserStep

-----------------------------------------------------------------------------
(* The manager's actions.                                                  *)

\* An accepted status update that keeps the location, or sets it to a sound
\* artifact, keeps the invariant; the writer may stop or go on.
LEMMA StatusWrite ==
  ASSUME IInv, NEW b \in Backups, NEW h, NEW s \in Statuses,
         UpdateStatus(h, b, s),
         UNCHANGED <<lastUid, cached, jobs, cachedJobs, store>>,
         SoundFor(s.artifactLocation, b, backup[b].uid, store),
         queue' \subseteq Backups,
         rec' \in [Backups -> [pc : ReconcileStates, obj : Objects \cup {Absent}]],
         \A c \in Backups : rec'[c].pc # "idle" => rec'[c] = rec[c],
         worker' \in [JobIds -> WorkerRecords],
         \A j \in JobIds : Busy(j)' => worker'[j] = worker[j]
  PROVE  IInv'
<1>1. /\ backup[b] \in Objects
      /\ backup' \in [Backups -> Objects \cup {Absent}]
      /\ fresh' \in [Backups -> SUBSET Holders]
      /\ \A c \in Backups :
           /\ fresh'[c] \subseteq fresh[c]
           /\ fresh'[c] # {} => backup'[c] = backup[c]
      /\ \A c \in Backups \ {b} : backup'[c] = backup[c]
      /\ backup'[b] = [backup[b] EXCEPT !.status = s]
  BY UpdateFacts DEF IInv
<1>2. backup'[b].uid = backup[b].uid /\ backup'[b].status = s
  BY <1>1 DEF Objects
<1>3. TypeOK'
  BY <1>1 DEF IInv, TypeOK
<1>4. ManagerCopies'
  BY <1>1 DEF IInv, ManagerCopies
<1>5. WorkerCopies'
  <2> SUFFICES ASSUME NEW j \in JobIds, Busy(j)'
               PROVE  /\ jobs'[j].backup \in Backups
                      /\ Exists(worker'[j].obj)
                      /\ j \in fresh'[jobs'[j].backup] =>
                           worker'[j].obj = backup'[jobs'[j].backup]
                      /\ worker'[j].pc = "stored" => StoredBy(j)'
    BY DEF WorkerCopies
  <2>1. worker'[j] = worker[j] /\ Busy(j) /\ StoredBy(j)' = StoredBy(j)
    BY DEF Busy, StoredBy, PathsOf, Shared, ArtifactAt
  <2> QED
    BY <1>1, <2>1 DEF IInv, WorkerCopies
<1>6. PublishedArtifactSound'
  <2> SUFFICES ASSUME NEW c \in Backups
               PROVE  SoundFor(backup'[c].status.artifactLocation, c,
                               backup'[c].uid, store)
    BY DEF PublishedArtifactSound, SoundFor
  <2>1. CASE c = b
    BY <1>2, <2>1
  <2>2. CASE c # b
    BY <1>1, <2>2 DEF IInv, PublishedArtifactSound, SoundFor
  <2> QED
    BY <2>1, <2>2
<1> QED
  BY <1>3, <1>4, <1>5, <1>6 DEF IInv

\* What the controller writes is typed and keeps the location it read.
LEMMA StatusToWriteFacts ==
  ASSUME TypeOK, NEW b \in Backups, Marking(b)
  PROVE  /\ StatusToWrite(b) \in Statuses
         /\ StatusToWrite(b).artifactLocation = rec[b].obj.status.artifactLocation
<1> DEFINE o == rec[b].obj
<1>1. o \in Objects \cup {Absent}
  BY DEF TypeOK
<1>2. \/ StatusToWrite(b) = RunningStatus(o)
      \/ StatusToWrite(b) = CompletedStatus(o)
      \/ StatusToWrite(b) = FailedStatus(o)
  BY DEF Marking, StatusToWrite
<1> HIDE DEF o
<1>3. /\ StatusToWrite(b) \in Statuses
      /\ StatusToWrite(b).artifactLocation = o.status.artifactLocation
  BY <1>1, <1>2, StatusTypes, ControllerKeepsLocation
<1> QED
  BY <1>3 DEF o

LEMMA ReconcileKeepsIInv ==
  ASSUME IInv, NEW b \in Backups, Reconcile(b)
  PROVE  IInv'
<1>1. PICK pc \in ReconcileStates :
        /\ Decide(b, cached[b], pc)
        /\ IF pc = "idle"
             THEN UNCHANGED <<rec, fresh>>
             ELSE /\ rec' = [rec EXCEPT ![b] = [pc |-> pc, obj |-> cached[b]]]
                  /\ fresh' = [fresh EXCEPT ![b] =
                                 IF "cache" \in @ THEN @ \cup {"reconciler"}
                                                  ELSE @ \ {"reconciler"}]
  BY DEF Reconcile
<1>2. UNCHANGED <<lastUid, backup, cached, jobs, cachedJobs, worker, store>>
  BY DEF Reconcile
<1>3. pc # "idle" => Exists(cached[b])
  BY <1>1 DEF Decide
<1>4. TypeOK'
  <2>1. queue' \subseteq Backups
    BY DEF Reconcile, IInv, TypeOK
  <2>2. rec' \in [Backups -> [pc : ReconcileStates, obj : Objects \cup {Absent}]]
    BY <1>1 DEF IInv, TypeOK
  <2>3. fresh' \in [Backups -> SUBSET Holders]
    BY <1>1 DEF IInv, TypeOK, Holders
  <2> QED
    BY <1>2, <2>1, <2>2, <2>3 DEF IInv, TypeOK
<1>5. \A c \in Backups :
        /\ "cache" \in fresh'[c] <=> "cache" \in fresh[c]
        /\ \A j \in JobIds : j \in fresh'[c] <=> j \in fresh[c]
  BY <1>1, NamesAssumption DEF IInv, TypeOK
<1>6. ManagerCopies'
  <2>1. CASE pc = "idle"
    BY <1>1, <1>2, <2>1 DEF IInv, ManagerCopies
  <2>2. CASE pc # "idle"
    BY <1>1, <1>2, <1>3, <1>5, <2>2 DEF IInv, ManagerCopies, TypeOK
  <2> QED
    BY <2>1, <2>2
<1>7. WorkerCopies'
  BY <1>2, <1>5 DEF IInv, WorkerCopies, Busy, StoredBy, PathsOf, Shared, ArtifactAt
<1>8. PublishedArtifactSound'
  BY <1>2 DEF IInv, PublishedArtifactSound
<1> QED
  BY <1>4, <1>6, <1>7, <1>8 DEF IInv

\* A Job is added under a new name, and the Reconcile call goes on or ends.
LEMMA CreateKeepsIInv ==
  ASSUME IInv, NEW b \in Backups, CreateJob(b) \/ CreateJobReplyLost(b)
  PROVE  IInv'
<1>1. PICK j \in JobIds :
        /\ jobs[j] = NoJob
        /\ jobs' = [jobs EXCEPT ![j] = BuildBackupJob(b, rec[b].obj)]
  BY DEF CreateJob, CreateJobReplyLost
<1>2. /\ UNCHANGED <<lastUid, backup, fresh, cached, cachedJobs, worker, store>>
      /\ rec[b].pc = "create"
      /\ \/ rec' = [rec EXCEPT ![b].pc = "markRunning"]
         \/ rec' = [rec EXCEPT ![b] = Idle]
      /\ queue' \subseteq Backups
  BY DEF CreateJob, CreateJobReplyLost, Requeue, IInv, TypeOK
<1>3. rec[b].obj \in Objects
  BY <1>2, ExistingObjects DEF IInv, TypeOK, ManagerCopies
<1>4. jobs' \in [JobIds -> JobRecords]
  <2>1. BuildBackupJob(b, rec[b].obj) \in JobRecords
    BY <1>3 DEF BuildBackupJob, JobRecords, JobStates, Objects
  <2> QED
    BY <1>1, <2>1 DEF IInv, TypeOK
<1>5. rec' \in [Backups -> [pc : ReconcileStates, obj : Objects \cup {Absent}]]
  <2>1. CASE rec' = [rec EXCEPT ![b].pc = "markRunning"]
    BY <2>1 DEF IInv, TypeOK, ReconcileStates
  <2>2. CASE rec' = [rec EXCEPT ![b] = Idle]
    BY <2>2 DEF IInv, TypeOK, ReconcileStates, Idle
  <2> QED
    BY <1>2, <2>1, <2>2
<1>6. TypeOK'
  BY <1>2, <1>4, <1>5 DEF IInv, TypeOK
<1>7. ManagerCopies'
  BY <1>2 DEF IInv, TypeOK, ManagerCopies, Idle
<1>8. WorkerCopies'
  <2>1. ~Busy(j)
    BY <1>1, NamesAssumption DEF IInv, WorkerCopies, NoJob
  <2>2. \A i \in JobIds : Busy(i) => jobs'[i] = jobs[i]
    BY <1>1, <2>1 DEF IInv, TypeOK
  <2> QED
    BY <1>2, <2>2 DEF IInv, WorkerCopies, Busy, StoredBy, PathsOf, Shared, ArtifactAt
<1>9. PublishedArtifactSound'
  BY <1>2 DEF IInv, PublishedArtifactSound
<1> QED
  BY <1>6, <1>7, <1>8, <1>9 DEF IInv

LEMMA MarkStatusKeepsIInv ==
  ASSUME IInv, NEW b \in Backups, MarkStatus(b)
  PROVE  IInv'
<1> DEFINE s == StatusToWrite(b)
<1>1. /\ UpdateStatus("reconciler", b, s) /\ Marking(b)
      /\ rec' = [rec EXCEPT ![b] = Idle]
      /\ UNCHANGED <<lastUid, cached, queue, jobs, cachedJobs, worker, store>>
  BY DEF MarkStatus
<1>2. /\ s \in Statuses
      /\ s.artifactLocation = rec[b].obj.status.artifactLocation
  BY <1>1, StatusToWriteFacts DEF IInv
<1>3. "reconciler" \in fresh[b]
  BY <1>1 DEF UpdateStatus, UpdateAccepted
<1>4. rec[b].obj = backup[b]
  BY <1>1, <1>3 DEF IInv, ManagerCopies, Marking
<1>5. /\ rec' \in [Backups -> [pc : ReconcileStates, obj : Objects \cup {Absent}]]
      /\ \A c \in Backups : rec'[c].pc # "idle" => rec'[c] = rec[c]
  BY <1>1 DEF IInv, TypeOK, Idle, ReconcileStates
<1>6. /\ queue' \subseteq Backups
      /\ worker' \in [JobIds -> WorkerRecords]
      /\ \A j \in JobIds : Busy(j)' => worker'[j] = worker[j]
  BY <1>1 DEF IInv, TypeOK
<1> HIDE DEF s
<1>7. SoundFor(s.artifactLocation, b, backup[b].uid, store)
  BY <1>2, <1>4 DEF IInv, PublishedArtifactSound, SoundFor
<1> QED
  BY <1>1, <1>2, <1>5, <1>6, <1>7, StatusWrite

\* A failed call only ends the Reconcile call and queues the object.
LEMMA RequeueKeepsIInv ==
  ASSUME IInv, NEW b \in Backups, Requeue(b),
         UNCHANGED <<lastUid, backup, fresh, cached, jobs, cachedJobs, worker,
                     store>>
  PROVE  IInv'
<1>1. TypeOK'
  BY DEF Requeue, IInv, TypeOK, Idle, ReconcileStates
<1>2. ManagerCopies'
  BY DEF Requeue, IInv, TypeOK, ManagerCopies, Idle
<1>3. WorkerCopies'
  BY DEF IInv, WorkerCopies, Busy, StoredBy, PathsOf, Shared, ArtifactAt
<1>4. PublishedArtifactSound'
  BY DEF IInv, PublishedArtifactSound
<1> QED
  BY <1>1, <1>2, <1>3, <1>4 DEF IInv

LEMMA SyncBackupKeepsIInv ==
  ASSUME IInv, NEW b \in Backups, SyncBackup(b)
  PROVE  IInv'
<1>1. TypeOK'
  BY DEF SyncBackup, IInv, TypeOK, Holders
<1>2. ManagerCopies'
  BY DEF SyncBackup, IInv, TypeOK, ManagerCopies
<1>3. WorkerCopies'
  BY NamesAssumption DEF SyncBackup, IInv, TypeOK, WorkerCopies, Busy, StoredBy, PathsOf, Shared, ArtifactAt
<1>4. PublishedArtifactSound'
  BY DEF SyncBackup, IInv, PublishedArtifactSound
<1> QED
  BY <1>1, <1>2, <1>3, <1>4 DEF IInv

LEMMA ResyncKeepsIInv ==
  ASSUME IInv, NEW b \in Backups, Resync(b)
  PROVE  IInv'
  BY DEF Resync, IInv, TypeOK, ManagerCopies, WorkerCopies, Busy, StoredBy, PathsOf, Shared, ArtifactAt,
     PublishedArtifactSound

LEMMA ManagerKeepsIInv ==
  ASSUME IInv, NEW b \in Backups, ManagerStep(b)
  PROVE  IInv'
<1>1. CASE CreateJobFails(b)
  BY <1>1, RequeueKeepsIInv DEF CreateJobFails
<1>2. CASE MarkStatusFails(b)
  BY <1>2, RequeueKeepsIInv DEF MarkStatusFails
<1> QED
  BY <1>1, <1>2, ReconcileKeepsIInv, CreateKeepsIInv, MarkStatusKeepsIInv,
     SyncBackupKeepsIInv, ResyncKeepsIInv
     DEF ManagerStep, ReconcilerStep, BackupReconcile, ClusterBackupReconcile

LEMMA RestartKeepsIInv ==
  ASSUME IInv, ManagerRestart
  PROVE  IInv'
<1>1. TypeOK'
  <2>1. /\ cached' \in [Backups -> Objects \cup {Absent}]
        /\ cachedJobs' \in [JobIds -> JobRecords]
        /\ queue' \subseteq Backups
        /\ rec' \in [Backups -> [pc : ReconcileStates, obj : Objects \cup {Absent}]]
    BY DEF ManagerRestart, IInv, TypeOK, Idle, ReconcileStates
  <2>2. fresh' \in [Backups -> SUBSET Holders]
    BY DEF ManagerRestart, IInv, TypeOK, Holders
  <2> QED
    BY <2>1, <2>2 DEF ManagerRestart, IInv, TypeOK
<1>2. ManagerCopies'
  BY DEF ManagerRestart, ManagerCopies, Idle
<1>3. WorkerCopies'
  <2>1. \A b \in Backups, j \in JobIds : j \in fresh'[b] => j \in fresh[b]
    BY NamesAssumption DEF ManagerRestart
  <2> QED
    BY <2>1 DEF ManagerRestart, IInv, WorkerCopies, Busy, StoredBy, PathsOf, Shared, ArtifactAt
<1>4. PublishedArtifactSound'
  BY DEF ManagerRestart, IInv, PublishedArtifactSound
<1> QED
  BY <1>1, <1>2, <1>3, <1>4 DEF IInv

-----------------------------------------------------------------------------
(* The workers' and the Jobs' actions.                                     *)

LEMMA WorkerLoadKeepsIInv ==
  ASSUME IInv, NEW j \in JobIds, WorkerLoad(j)
  PROVE  IInv'
<1> DEFINE b == jobs[j].backup
<1>1. /\ UNCHANGED <<lastUid, backup, cached, queue, rec, jobs, cachedJobs, store>>
      /\ jobs[j].state = "Active"
  BY DEF WorkerLoad
<1>2. b \in Backups
  BY <1>1 DEF IInv, TypeOK, JobRecords, NoJob
<1>3. CASE Exists(backup[b])
  <2>1. /\ worker' = [worker EXCEPT ![j] =
                       [@ EXCEPT !.pc = "loaded", !.obj = backup[b]]]
        /\ fresh' = [fresh EXCEPT ![b] = @ \cup {j}]
    BY <1>3 DEF WorkerLoad
  <2>2. TypeOK'
    BY <1>1, <1>2, <2>1 DEF IInv, TypeOK, WorkerStates, WorkerRecords, Holders
  <2>3. ManagerCopies'
    BY <1>1, <2>1, NamesAssumption DEF IInv, TypeOK, ManagerCopies
  <2>4. WorkerCopies'
    <3> SUFFICES ASSUME NEW i \in JobIds, Busy(i)'
                 PROVE  /\ jobs[i].backup \in Backups
                        /\ Exists(worker'[i].obj)
                        /\ i \in fresh'[jobs[i].backup] =>
                             worker'[i].obj = backup[jobs[i].backup]
                        /\ worker'[i].pc = "stored" => StoredBy(i)'
      BY <1>1 DEF WorkerCopies
    <3>1. CASE i = j
      BY <1>2, <1>3, <2>1, <3>1 DEF IInv, TypeOK
    <3>2. CASE i # j
      <4>1. /\ worker'[i] = worker[i] /\ Busy(i)
            /\ StoredBy(i)' = StoredBy(i)
        BY <1>1, <2>1, <3>2 DEF Busy, StoredBy, PathsOf, Shared, ArtifactAt, IInv, TypeOK
      <4>2. i \in fresh'[jobs[i].backup] => i \in fresh[jobs[i].backup]
        BY <1>2, <2>1, <3>2, <4>1 DEF IInv, TypeOK, WorkerCopies
      <4> QED
        BY <4>1, <4>2 DEF IInv, WorkerCopies
    <3> QED
      BY <3>1, <3>2
  <2>5. PublishedArtifactSound'
    BY <1>1 DEF IInv, PublishedArtifactSound
  <2> QED
    BY <2>2, <2>3, <2>4, <2>5 DEF IInv
<1>4. CASE ~Exists(backup[b])
  <2>1. /\ worker' = [worker EXCEPT ![j] = [NotStarted EXCEPT !.pc = "exit1"]]
        /\ UNCHANGED fresh
    BY <1>4 DEF WorkerLoad, ExitWith
  <2>2. TypeOK'
    BY <1>1, <2>1 DEF IInv, TypeOK, WorkerStates, WorkerRecords, NotStarted
  <2>3. ManagerCopies'
    BY <1>1, <2>1 DEF IInv, ManagerCopies
  <2>4. WorkerCopies'
    BY <1>1, <2>1 DEF IInv, TypeOK, WorkerCopies, Busy, StoredBy, PathsOf, Shared, ArtifactAt
  <2>5. PublishedArtifactSound'
    BY <1>1 DEF IInv, PublishedArtifactSound
  <2> QED
    BY <2>2, <2>3, <2>4, <2>5 DEF IInv
<1> QED
  BY <1>3, <1>4

\* What a busy worker makes is an artifact, under a path of its object.
LEMMA ArtifactType ==
  ASSUME IInv, NEW j \in JobIds, Busy(j)
  PROVE  /\ worker[j].obj \in Objects
         /\ \A l \in PathsOf(j) :
              /\ ArtifactAt(j, l) \in Artifacts
              /\ ArtifactAt(j, l).location = l
              /\ ArtifactAt(j, l).uid = worker[j].obj.uid
              /\ l \in Locations /\ l # NoLocation
              /\ l.backup = jobs[j].backup
<1>1. worker[j].obj \in Objects
  BY ExistingObjects DEF IInv, TypeOK, WorkerCopies, WorkerRecords
<1>2. ASSUME NEW l \in PathsOf(j)
      PROVE  l \in Locations /\ ArtifactAt(j, l) \in Artifacts
  BY <1>1, <1>2 DEF PathsOf, ArtifactAt, Artifacts, Objects
<1> QED
  BY <1>1, <1>2, NoLocationAssumption DEF PathsOf, ArtifactAt

LEMMA WorkerStoreKeepsIInv ==
  ASSUME IInv, NEW j \in JobIds, WorkerStore(j) \/ WorkerFail(j)
  PROVE  IInv'
<1>1. /\ UNCHANGED <<lastUid, backup, fresh, cached, queue, rec, jobs, cachedJobs>>
      /\ Busy(j)
  BY DEF WorkerStore, WorkerFail, Busy
<1>2. /\ store \subseteq store' /\ store' \subseteq Artifacts
      /\ \/ \E l \in PathsOf(j) :
              /\ worker' = [worker EXCEPT ![j].pc = "stored", ![j].location = l]
              /\ Shared(j, l) \subseteq store'
         \/ worker' = [worker EXCEPT ![j].pc = "failing"]
  <2>1. \A l \in PathsOf(j) : Shared(j, l) \subseteq Artifacts
    BY <1>1, ArtifactType DEF Shared
  <2>2. store \subseteq Artifacts
    BY DEF IInv, TypeOK
  <2> QED
    BY <2>1, <2>2 DEF WorkerStore, WorkerFail
<1>3. ASSUME NEW i \in JobIds, worker'[i] = worker[i], Busy(i)'
      PROVE  Busy(i) /\ (worker'[i].pc = "stored" => StoredBy(i)')
  BY <1>1, <1>2, <1>3 DEF IInv, WorkerCopies, Busy, StoredBy, PathsOf, Shared,
     ArtifactAt
<1>4. /\ worker' \in [JobIds -> WorkerRecords]
      /\ \A i \in JobIds :
           /\ worker'[i].obj = worker[i].obj
           /\ Busy(i)' => Busy(i) /\ (worker'[i].pc = "stored" => StoredBy(i)')
  <2>1. ASSUME NEW l \in PathsOf(j), Shared(j, l) \subseteq store',
               worker' = [worker EXCEPT ![j].pc = "stored", ![j].location = l]
        PROVE  /\ worker' \in [JobIds -> WorkerRecords]
               /\ \A i \in JobIds \ {j} : worker'[i] = worker[i]
               /\ worker'[j].obj = worker[j].obj /\ StoredBy(j)'
    <3>1. /\ l \in Locations /\ worker[j] \in WorkerRecords
          /\ worker \in [JobIds -> WorkerRecords]
      BY <1>1, ArtifactType DEF IInv, TypeOK
    <3>2. worker'[j] = [worker[j] EXCEPT !.pc = "stored", !.location = l]
      BY <2>1, <3>1
    <3>3. worker'[j] \in WorkerRecords /\ worker'[j].obj = worker[j].obj
      BY <3>1, <3>2 DEF WorkerRecords, WorkerStates
    <3>4. worker'[j].location = l
      BY <3>1, <3>2 DEF WorkerRecords
    <3>5. StoredBy(j)'
      BY <1>1, <2>1, <3>3, <3>4 DEF StoredBy, PathsOf, Shared, ArtifactAt
    <3> QED
      BY <2>1, <3>1, <3>3, <3>5
  <2>2. ASSUME worker' = [worker EXCEPT ![j].pc = "failing"]
        PROVE  /\ worker' \in [JobIds -> WorkerRecords]
               /\ \A i \in JobIds \ {j} : worker'[i] = worker[i]
               /\ worker'[j].obj = worker[j].obj /\ worker'[j].pc # "stored"
    BY <2>2 DEF IInv, TypeOK, WorkerStates, WorkerRecords
  <2> QED
    BY <1>1, <1>2, <1>3, <2>1, <2>2
<1>5. TypeOK'
  BY <1>1, <1>2, <1>4 DEF IInv, TypeOK
<1>6. ManagerCopies'
  BY <1>1 DEF IInv, ManagerCopies
<1>7. WorkerCopies'
  BY <1>1, <1>4 DEF IInv, WorkerCopies
<1>8. PublishedArtifactSound'
  BY <1>1, <1>2 DEF IInv, PublishedArtifactSound
<1> QED
  BY <1>5, <1>6, <1>7, <1>8 DEF IInv

LEMMA WorkerReportKeepsIInv ==
  ASSUME IInv, NEW j \in JobIds, WorkerReport(j)
  PROVE  IInv'
<1> DEFINE b == jobs[j].backup
           s == ReportedStatus(j)
           o == worker[j].obj
<1>1. /\ Busy(j) /\ b \in Backups /\ UpdateStatus(j, b, s)
      /\ UNCHANGED <<lastUid, cached, queue, rec, jobs, cachedJobs, store>>
  BY DEF WorkerReport, Busy, IInv, WorkerCopies
<1>2. o = backup[b] /\ o \in Objects
  BY <1>1, ArtifactType DEF UpdateStatus, UpdateAccepted, IInv, WorkerCopies
<1>3. /\ s \in Statuses
      /\ SoundFor(s.artifactLocation, b, backup[b].uid, store)
  <2>1. CASE worker[j].pc = "stored"
    <3>1. PICK l \in PathsOf(j) : l = worker[j].location /\ Shared(j, l) \subseteq store
      BY <1>1, <2>1 DEF IInv, WorkerCopies, StoredBy
    <3>2. s = WorkerCompletedStatus(o, l)
      BY <2>1, <3>1 DEF ReportedStatus
    <3>3. SoundFor(l, b, backup[b].uid, store)
      <4>1. /\ l.backup = b /\ ArtifactAt(j, l).location = l
            /\ ArtifactAt(j, l).uid = backup[b].uid
        BY <1>1, <1>2, ArtifactType
      <4>2. CASE l \in PodLocations
        BY <4>1, <4>2 DEF SoundFor
      <4>3. CASE l \notin PodLocations
        BY <3>1, <4>1, <4>3 DEF SoundFor, Shared
      <4> QED
        BY <4>2, <4>3
    <3>4. l \in Locations
      BY <1>1, ArtifactType
    <3> HIDE DEF o, s
    <3>5. s \in Statuses /\ o.status \in Statuses
      BY <1>2, <3>2, <3>4, StatusTypes
    <3>6. s.artifactLocation = l
      BY <3>2, <3>5 DEF WorkerCompletedStatus, Statuses
    <3> QED
      BY <3>3, <3>5, <3>6
  <2>2. CASE worker[j].pc # "stored"
    <3>1. s = WorkerFailedStatus(o)
      BY <2>2 DEF ReportedStatus
    <3>2. SoundFor(backup[b].status.artifactLocation, b, backup[b].uid, store)
      BY <1>1 DEF IInv, PublishedArtifactSound, SoundFor
    <3> HIDE DEF o, s
    <3> QED
      BY <1>2, <3>1, <3>2, StatusTypes, ControllerKeepsLocation
  <2> QED
    BY <2>1, <2>2
<1>4. /\ worker' \in [JobIds -> WorkerRecords]
      /\ \A i \in JobIds : Busy(i)' => worker'[i] = worker[i]
  <2>1. PICK pc \in {"exit0", "exit1"} :
          worker' = [worker EXCEPT ![j] = [NotStarted EXCEPT !.pc = pc]]
    BY DEF WorkerReport, ExitWith
  <2> QED
    BY <2>1 DEF IInv, TypeOK, WorkerStates, WorkerRecords, NotStarted, Busy
<1>5. /\ queue' \subseteq Backups
      /\ rec' \in [Backups -> [pc : ReconcileStates, obj : Objects \cup {Absent}]]
      /\ \A c \in Backups : rec'[c].pc # "idle" => rec'[c] = rec[c]
  BY <1>1 DEF IInv, TypeOK
<1> HIDE DEF b, s, o
<1> QED
  BY <1>1, <1>3, <1>4, <1>5, StatusWrite

\* A worker that ends without a report disturbs nothing.
LEMMA ExitKeepsIInv ==
  ASSUME IInv, NEW j \in JobIds, ExitWith(j, "exit1"),
         UNCHANGED <<lastUid, backup, fresh, cached, queue, rec, jobs, cachedJobs,
                     store>>
  PROVE  IInv'
<1>1. TypeOK'
  BY DEF ExitWith, NotStarted, IInv, TypeOK, WorkerStates, WorkerRecords
<1>2. ManagerCopies'
  BY DEF IInv, ManagerCopies
<1>3. WorkerCopies'
  BY DEF ExitWith, IInv, TypeOK, WorkerCopies, Busy, StoredBy, PathsOf, Shared, ArtifactAt
<1>4. PublishedArtifactSound'
  BY DEF IInv, PublishedArtifactSound
<1> QED
  BY <1>1, <1>2, <1>3, <1>4 DEF IInv

\* The state of an existing Job changes; the object it is for does not.
LEMMA JobStateKeepsIInv ==
  ASSUME IInv, NEW j \in JobIds, NEW st \in JobStates \ {"None"},
         jobs[j].state # "None", jobs' = [jobs EXCEPT ![j].state = st],
         UNCHANGED <<lastUid, backup, fresh, cached, queue, rec, cachedJobs,
                     worker, store>>
  PROVE  IInv'
<1>1. jobs[j] \in [state : JobStates \ {"None"}, backup : Backups, uid : Uids]
  BY DEF IInv, TypeOK, JobRecords, NoJob
<1>2. /\ jobs' \in [JobIds -> JobRecords]
      /\ \A i \in JobIds : jobs'[i].backup = jobs[i].backup
  BY <1>1 DEF IInv, TypeOK, JobRecords
<1>3. TypeOK'
  BY <1>2 DEF IInv, TypeOK
<1>4. ManagerCopies'
  BY DEF IInv, ManagerCopies
<1>5. WorkerCopies'
  BY <1>2 DEF IInv, WorkerCopies, Busy, StoredBy, PathsOf, Shared, ArtifactAt
<1>6. PublishedArtifactSound'
  BY DEF IInv, PublishedArtifactSound
<1> QED
  BY <1>3, <1>4, <1>5, <1>6 DEF IInv

LEMMA SyncJobKeepsIInv ==
  ASSUME IInv, NEW j \in JobIds, SyncJob(j)
  PROVE  IInv'
<1>1. TypeOK'
  BY DEF SyncJob, IInv, TypeOK
<1>2. ManagerCopies' /\ PublishedArtifactSound'
  BY DEF SyncJob, IInv, ManagerCopies, PublishedArtifactSound
<1>3. WorkerCopies'
  BY DEF SyncJob, IInv, WorkerCopies, Busy, StoredBy, PathsOf, Shared, ArtifactAt
<1> QED
  BY <1>1, <1>2, <1>3 DEF IInv

LEMMA JobKeepsIInv ==
  ASSUME IInv, NEW j \in JobIds, JobStep(j)
  PROVE  IInv'
<1>1. CASE WorkerReportFails(j)
  BY <1>1, ExitKeepsIInv DEF WorkerReportFails
<1>2. CASE PodKilled(j)
  BY <1>2, ExitKeepsIInv DEF PodKilled
<1>3. CASE JobDeadline(j)
  BY <1>3, JobStateKeepsIInv DEF JobDeadline, JobStates
<1>4. CASE JobFinished(j)
  <2> DEFINE st == IF worker[j].pc = "exit0" THEN "Succeeded" ELSE "Failed"
  <2>1. st \in JobStates \ {"None"}
    BY DEF JobStates
  <2>2. /\ jobs[j].state # "None" /\ jobs' = [jobs EXCEPT ![j].state = st]
        /\ UNCHANGED <<lastUid, backup, fresh, cached, queue, rec, cachedJobs,
                       worker, store>>
    BY <1>4 DEF JobFinished
  <2> HIDE DEF st
  <2> QED
    BY <2>1, <2>2, JobStateKeepsIInv
<1>5. CASE JobExpired(j)
  BY <1>5, JobStateKeepsIInv DEF JobExpired, JobStates
<1> QED
  BY <1>1, <1>2, <1>3, <1>4, <1>5, SyncJobKeepsIInv, WorkerLoadKeepsIInv,
     WorkerStoreKeepsIInv, WorkerReportKeepsIInv DEF JobStep, WorkerStep

-----------------------------------------------------------------------------
LEMMA StutterKeepsIInv ==
  ASSUME IInv, UNCHANGED vars
  PROVE  IInv'
  BY DEF vars, IInv, TypeOK, ManagerCopies, WorkerCopies, Busy, StoredBy, PathsOf, Shared, ArtifactAt,
     PublishedArtifactSound

LEMMA NextKeepsIInv == IInv /\ [Next]_vars => IInv'
  BY UserKeepsIInv, ManagerKeepsIInv, JobKeepsIInv, RestartKeepsIInv,
     StutterKeepsIInv DEF Next

\* The inductive invariant holds in every reachable state.
LEMMA IInvHolds == Spec => []IInv
  BY InitIInv, NextKeepsIInv, PTL DEF Spec

\* In every reachable state every variable has its type, a phase is one the
\* API declares, and no copy a process holds is of another kind.
THEOREM TypeCorrect == Spec => []TypeOK
<1>1. IInv => TypeOK
  BY DEF IInv
<1> QED
  BY <1>1, IInvHolds, PTL

\* The location an object shows is that of an artifact in storage made from
\* this incarnation, for any number of objects, Jobs, restarts and edits.
THEOREM ArtifactsSound == Spec => []PublishedArtifactSound
<1>1. IInv => PublishedArtifactSound
  BY DEF IInv
<1> QED
  BY <1>1, IInvHolds, PTL

-----------------------------------------------------------------------------
(* BackupSystem implements BackupLedger.                                   *)

LEMMA InitLedger == Init => Ledger!Init
<1>1. /\ Incarnation(Absent) = Ledger!Gone
      /\ Absent.status.artifactLocation = NoLocation
  BY DEF Incarnation, Ledger!Gone, Absent, NewStatus
<1> QED
  BY <1>1 DEF Init, Ledger!Init

\* A step that writes no object and stores nothing is a stutter of the ledger;
\* so is a status update that keeps the location.
LEMMA LedgerStutters ==
  ASSUME UNCHANGED <<lastUid, store>>,
         \A b \in Backups :
           /\ backup'[b].uid = backup[b].uid
           /\ backup'[b].generation = backup[b].generation
           /\ backup'[b].status.artifactLocation
                = backup[b].status.artifactLocation
  PROVE  UNCHANGED Ledger!ledger
  BY DEF Ledger!ledger, Incarnation

\* A write to b changes what the ledger sees of b only.
LEMMA LedgerWrite ==
  ASSUME NEW b \in Backups,
         \A c \in Backups \ {b} :
           /\ backup'[c].uid = backup[c].uid
           /\ backup'[c].generation = backup[c].generation
           /\ backup'[c].status = backup[c].status
  PROVE  /\ [c \in Backups |-> Incarnation(backup'[c])]
              = [[c \in Backups |-> Incarnation(backup[c])]
                   EXCEPT ![b] = Incarnation(backup'[b])]
         /\ [c \in Backups |-> backup'[c].status.artifactLocation]
              = [[c \in Backups |-> backup[c].status.artifactLocation]
                   EXCEPT ![b] = backup'[b].status.artifactLocation]
<1>1. \A c \in Backups \ {b} :
        /\ Incarnation(backup'[c]) = Incarnation(backup[c])
        /\ backup'[c].status.artifactLocation = backup[c].status.artifactLocation
  BY DEF Incarnation
<1> QED
  BY <1>1

LEMMA UserImplementsLedger ==
  ASSUME IInv, NEW b \in Backups, UserStep(b)
  PROVE  Ledger!Next \/ UNCHANGED Ledger!ledger
<1>1. ASSUME NEW o, Put(b, o)
      PROVE  /\ backup'[b] = o
             /\ \A c \in Backups \ {b} : backup'[c] = backup[c]
  BY <1>1 DEF Put, IInv, TypeOK
<1>2. CASE CreateBackup(b)
  <2> DEFINE o == [uid |-> lastUid + 1, generation |-> 1, deleting |-> FALSE,
                   status |-> NewStatus]
  <2>1. /\ lastUid' = lastUid + 1 /\ UNCHANGED store
        /\ Put(b, o) /\ ~Exists(backup[b])
    BY <1>2 DEF CreateBackup
  <2>2. Incarnation(backup[b]) = Ledger!Gone
    BY <2>1 DEF IInv, TypeOK, Objects, Uids, Exists, Absent, Incarnation, Ledger!Gone
  <2>3. /\ Incarnation(o) = [uid |-> lastUid', generation |-> 1]
        /\ o.status.artifactLocation = NoLocation
    BY <2>1 DEF Incarnation, NewStatus
  <2> HIDE DEF o
  <2>4. Ledger!Create(b)
    BY <1>1, <2>1, <2>2, <2>3, LedgerWrite DEF Ledger!Create
  <2> QED
    BY <2>4 DEF Ledger!Next
<1>3. CASE EditBackup(b)
  <2> DEFINE o == [backup[b] EXCEPT !.generation = @ + 1]
  <2>1. /\ UNCHANGED <<lastUid, store>>
        /\ Put(b, o) /\ backup[b] \in Objects
    BY <1>3, ExistingObjects DEF EditBackup, IInv, TypeOK
  <2>2. Incarnation(backup[b]) # Ledger!Gone
    BY <2>1 DEF Objects, Uids, Incarnation, Ledger!Gone
  <2>3. /\ Incarnation(o) = [Incarnation(backup[b]) EXCEPT !.generation = @ + 1]
        /\ o.status = backup[b].status
    BY <2>1 DEF Incarnation, Objects
  <2> HIDE DEF o
  <2>4. [c \in Backups |-> Incarnation(backup'[c])]
          = [[c \in Backups |-> Incarnation(backup[c])]
               EXCEPT ![b] = [Incarnation(backup[b]) EXCEPT !.generation = @ + 1]]
    <3>1. /\ backup'[b] = o
          /\ \A c \in Backups \ {b} : backup'[c] = backup[c]
      BY <1>1, <2>1
    <3>2. [c \in Backups |-> Incarnation(backup'[c])]
            = [[c \in Backups |-> Incarnation(backup[c])]
                 EXCEPT ![b] = Incarnation(backup'[b])]
      BY <3>1, LedgerWrite
    <3> QED
      BY <2>3, <3>1, <3>2
  <2>5. [c \in Backups |-> backup'[c].status.artifactLocation]
          = [c \in Backups |-> backup[c].status.artifactLocation]
    BY <1>1, <2>1, <2>3
  <2>6. Ledger!Edit(b)
    BY <2>1, <2>2, <2>4, <2>5 DEF Ledger!Edit
  <2> QED
    BY <2>6 DEF Ledger!Next
<1>4. CASE MarkDeleting(b)
  <2> DEFINE o == [backup[b] EXCEPT !.deleting = TRUE]
  <2>1. /\ UNCHANGED <<lastUid, store>>
        /\ Put(b, o) /\ backup[b] \in Objects
    BY <1>4, ExistingObjects DEF MarkDeleting, IInv, TypeOK
  <2>2. /\ o.uid = backup[b].uid /\ o.generation = backup[b].generation
        /\ o.status = backup[b].status
    BY <2>1 DEF Objects
  <2> HIDE DEF o
  <2> QED
    BY <1>1, <2>1, <2>2, LedgerStutters
<1>5. CASE DeleteBackup(b)
  <2>1. /\ UNCHANGED <<lastUid, store>>
        /\ Put(b, Absent) /\ backup[b] \in Objects
    BY <1>5, ExistingObjects DEF DeleteBackup, IInv, TypeOK
  <2>2. Incarnation(backup[b]) # Ledger!Gone
    BY <2>1 DEF Objects, Uids, Incarnation, Ledger!Gone
  <2>3. /\ Incarnation(Absent) = Ledger!Gone
        /\ Absent.status.artifactLocation = NoLocation
    BY DEF Incarnation, Ledger!Gone, Absent, NewStatus
  <2>4. Ledger!Delete(b)
    BY <1>1, <2>1, <2>2, <2>3, LedgerWrite DEF Ledger!Delete
  <2> QED
    BY <2>4 DEF Ledger!Next
<1> QED
  BY <1>2, <1>3, <1>4, <1>5 DEF UserStep

\* A status update keeps uid and generation of every object, and the status
\* of every object but its own.
LEMMA UpdateKeepsIncarnations ==
  ASSUME TypeOK, NEW b \in Backups, NEW h, NEW s \in Statuses,
         UpdateStatus(h, b, s)
  PROVE  /\ \A c \in Backups : /\ backup'[c].uid = backup[c].uid
                               /\ backup'[c].generation = backup[c].generation
         /\ \A c \in Backups \ {b} : backup'[c].status = backup[c].status
         /\ backup'[b].status = s
<1>1. /\ backup[b] \in Objects
      /\ \A c \in Backups \ {b} : backup'[c] = backup[c]
      /\ backup'[b] = [backup[b] EXCEPT !.status = s]
  BY UpdateFacts
<1>2. /\ backup'[b].uid = backup[b].uid
      /\ backup'[b].generation = backup[b].generation
      /\ backup'[b].status = s
  BY <1>1 DEF Objects
<1> QED
  BY <1>1, <1>2

LEMMA MarkStatusImplementsLedger ==
  ASSUME IInv, NEW b \in Backups, MarkStatus(b)
  PROVE  UNCHANGED Ledger!ledger
<1> DEFINE s == StatusToWrite(b)
<1>1. /\ UpdateStatus("reconciler", b, s) /\ Marking(b)
      /\ UNCHANGED <<lastUid, store>>
  BY DEF MarkStatus
<1>2. /\ s \in Statuses
      /\ s.artifactLocation = rec[b].obj.status.artifactLocation
  BY <1>1, StatusToWriteFacts DEF IInv
<1>3. rec[b].obj = backup[b]
  BY <1>1 DEF UpdateStatus, UpdateAccepted, IInv, ManagerCopies, Marking
<1> HIDE DEF s
<1> QED
  BY <1>1, <1>2, <1>3, UpdateKeepsIncarnations, LedgerStutters DEF IInv

LEMMA WorkerReportImplementsLedger ==
  ASSUME IInv, NEW j \in JobIds, WorkerReport(j)
  PROVE  Ledger!Next \/ UNCHANGED Ledger!ledger
<1> DEFINE s == ReportedStatus(j)
           o == worker[j].obj
<1>1. Busy(j)
  BY DEF WorkerReport, Busy
<1>2. PICK b \in Backups : b = jobs[j].backup
  BY <1>1 DEF IInv, WorkerCopies
<1>3. /\ UpdateStatus(j, b, s)
      /\ UNCHANGED <<lastUid, store>>
  BY <1>2 DEF WorkerReport
<1>4. o = backup[b] /\ o \in Objects
  BY <1>1, <1>2, <1>3, ArtifactType
     DEF UpdateStatus, UpdateAccepted, IInv, WorkerCopies
<1>5. Incarnation(backup[b]) # Ledger!Gone
  BY <1>4 DEF Objects, Uids, Incarnation, Ledger!Gone
<1>6. CASE worker[j].pc = "stored"
  <2>1. PICK l \in PathsOf(j) : l = worker[j].location /\ Shared(j, l) \subseteq store
    BY <1>1, <1>6 DEF IInv, WorkerCopies, StoredBy
  <2>2. /\ l \in Locations /\ ArtifactAt(j, l).location = l
        /\ ArtifactAt(j, l).uid = o.uid /\ ArtifactAt(j, l).generation = o.generation
        /\ ArtifactAt(j, l) \in Artifacts
    BY <1>1, ArtifactType DEF ArtifactAt
  <2>3. s = WorkerCompletedStatus(o, l)
    BY <1>6, <2>1 DEF ReportedStatus
  <2> HIDE DEF s, o
  <2>4. s \in Statuses /\ o.status \in Statuses
    BY <1>4, <2>2, <2>3, StatusTypes
  <2>5. s.artifactLocation = l
    BY <2>3, <2>4 DEF WorkerCompletedStatus, Statuses
  <2>6. /\ \A c \in Backups : /\ backup'[c].uid = backup[c].uid
                              /\ backup'[c].generation = backup[c].generation
        /\ \A c \in Backups \ {b} : backup'[c].status = backup[c].status
        /\ backup'[b].status = s
    BY <1>3, <2>4, UpdateKeepsIncarnations DEF IInv
  <2>7. Incarnation(backup'[b]) = Incarnation(backup[b])
    BY <2>6 DEF Incarnation
  <2>8. /\ [c \in Backups |-> Incarnation(backup'[c])]
             = [c \in Backups |-> Incarnation(backup[c])]
        /\ [c \in Backups |-> backup'[c].status.artifactLocation]
             = [[c \in Backups |-> backup[c].status.artifactLocation]
                  EXCEPT ![b] = l]
    BY <1>3, <2>5, <2>6, <2>7, LedgerWrite
  <2>9. CASE l \in PodLocations
    <3>1. Ledger!PublishUnshared(b, l)
      BY <1>3, <1>5, <2>8 DEF Ledger!PublishUnshared
    <3> QED
      BY <2>9, <3>1 DEF Ledger!Next
  <2>10. CASE l \notin PodLocations
    <3>1. PICK a \in Artifacts : a = ArtifactAt(j, l)
      BY <2>2
    <3>2. /\ a \in store /\ a.location = l
          /\ Incarnation(backup[b]).uid = a.uid
          /\ Incarnation(backup[b]).generation = a.generation
      BY <1>4, <2>1, <2>2, <2>10, <3>1 DEF Shared, Incarnation
    <3>3. Ledger!Publish(b, a)
      BY <1>3, <2>8, <3>2 DEF Ledger!Publish
    <3> QED
      BY <3>3 DEF Ledger!Next
  <2> QED
    BY <2>9, <2>10
<1>7. CASE worker[j].pc # "stored"
  <2>1. s = WorkerFailedStatus(o)
    BY <1>7 DEF ReportedStatus
  <2> HIDE DEF s, o
  <2>2. /\ s \in Statuses
        /\ s.artifactLocation = backup[b].status.artifactLocation
    BY <1>4, <2>1, StatusTypes, ControllerKeepsLocation
  <2> QED
    BY <1>3, <2>2, UpdateKeepsIncarnations, LedgerStutters DEF IInv
<1> QED
  BY <1>6, <1>7

LEMMA WorkerStoreImplementsLedger ==
  ASSUME IInv, NEW j \in JobIds, WorkerStore(j) \/ WorkerFail(j)
  PROVE  Ledger!Next \/ UNCHANGED Ledger!ledger
<1>1. /\ UNCHANGED <<lastUid, backup>> /\ Busy(j)
      /\ store' = store \/ \E l \in PathsOf(j) : store' = store \cup Shared(j, l)
  BY DEF WorkerStore, WorkerFail, Busy
<1>2. CASE store' = store
  BY <1>1, <1>2, LedgerStutters
<1>3. ASSUME NEW l \in PathsOf(j), store' = store \cup Shared(j, l), store' # store
      PROVE  Ledger!Next
  <2>1. /\ store' = store \cup {ArtifactAt(j, l)} /\ ArtifactAt(j, l) \in Artifacts
        /\ ArtifactAt(j, l).location = l /\ l \notin PodLocations
    BY <1>1, <1>3, ArtifactType DEF Shared, ArtifactAt
  <2>2. Ledger!Store(ArtifactAt(j, l))
    BY <1>1, <2>1 DEF Ledger!Store
  <2> QED
    BY <2>1, <2>2 DEF Ledger!Next
<1> QED
  BY <1>1, <1>2, <1>3

LEMMA NextImplementsLedger ==
  ASSUME IInv, [Next]_vars
  PROVE  Ledger!Next \/ UNCHANGED Ledger!ledger
<1>1. ASSUME NEW b \in Backups, ManagerStep(b)
      PROVE  UNCHANGED Ledger!ledger
  <2>1. CASE MarkStatus(b)
    BY <2>1, MarkStatusImplementsLedger
  <2>2. CASE ~MarkStatus(b)
    <3>1. UNCHANGED <<lastUid, backup, store>>
      BY <1>1, <2>2 DEF ManagerStep, SyncBackup, Resync, ReconcilerStep,
         BackupReconcile, ClusterBackupReconcile, Reconcile, CreateJob,
         CreateJobReplyLost, CreateJobFails, MarkStatusFails
    <3> QED
      BY <3>1, LedgerStutters
  <2> QED
    BY <2>1, <2>2
<1>2. ASSUME NEW j \in JobIds, JobStep(j)
      PROVE  Ledger!Next \/ UNCHANGED Ledger!ledger
  <2>1. CASE WorkerReport(j) \/ WorkerStore(j) \/ WorkerFail(j)
    BY <2>1, WorkerReportImplementsLedger, WorkerStoreImplementsLedger
  <2>2. CASE ~(WorkerReport(j) \/ WorkerStore(j) \/ WorkerFail(j))
    <3>1. UNCHANGED <<lastUid, backup, store>>
      BY <1>2, <2>2 DEF JobStep, WorkerStep, SyncJob, WorkerLoad,
         WorkerReportFails, PodKilled, JobDeadline, JobFinished, JobExpired
    <3> QED
      BY <3>1, LedgerStutters
  <2> QED
    BY <2>1, <2>2
<1>3. CASE ManagerRestart \/ UNCHANGED vars
  <2>1. UNCHANGED <<lastUid, backup, store>>
    BY <1>3 DEF ManagerRestart, vars
  <2> QED
    BY <2>1, LedgerStutters
<1> QED
  BY <1>1, <1>2, <1>3, UserImplementsLedger DEF Next

\* The statuses of all objects together behave as the ledger does: an artifact
\* is published only when stored, only for the incarnation and the generation
\* it was made from, and is not lost while the incarnation lives.
THEOREM LedgerRefinement == Spec => LedgerImplemented
<1>1. Init => Ledger!Init
  BY InitLedger
<1>2. IInv /\ [Next]_vars => [Ledger!Next]_(Ledger!ledger)
  BY NextImplementsLedger
<1> QED
  BY <1>1, <1>2, IInvHolds, PTL DEF Spec, LedgerImplemented, Ledger!Spec

=============================================================================
