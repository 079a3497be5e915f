--------------------------- MODULE BackupJobsProofs ----------------------------
(***************************************************************************)
(* Theorems about the Jobs of BackupSystem: what a phase says of them, how *)
(* the observed generation moves, and who may replace a location that was  *)
(* published.                                                              *)
(***************************************************************************)
EXTENDS BackupSystemProofs

-----------------------------------------------------------------------------
(* The inductive invariants, each on top of IInv.                          *)

\* Among the Jobs js is one of incarnation u of b; one whose worker, of ws,
\* ended with exit code 0.
HasJob(js, b, u) ==
  \E j \in JobIds : /\ js[j].state # "None"
                    /\ js[j].backup = b /\ js[j].uid = u

HasFinishedWorker(js, ws, b, u) ==
  \E j \in JobIds : /\ ws[j].pc = "exit0"
                    /\ js[j].backup = b /\ js[j].uid = u

\* A Reconcile call that is about to write Running has created the Job.
RunningInv ==
  /\ RunningHasJob
  /\ \A b \in Backups :
       rec[b].pc = "markRunning" => HasJob(jobs, b, rec[b].obj.uid)

\* A Job that is seen to have succeeded, in the API server or in the cache,
\* has a worker that ended with exit code 0; and what the cache shows of a Job
\* may be old but is of the same Job.
SuccessIsReal ==
  \A j \in JobIds :
    /\ jobs[j].state = "Succeeded" => worker[j].pc = "exit0"
    /\ cachedJobs[j] # NoJob =>
         /\ cachedJobs[j].backup = jobs[j].backup
         /\ cachedJobs[j].uid = jobs[j].uid
         /\ cachedJobs[j].state = "Succeeded" => worker[j].pc = "exit0"

CompletedInv ==
  /\ CompletedIsJustified
  /\ SuccessIsReal
  /\ \A b \in Backups :
       rec[b].pc = "markCompleted" => HasFinishedWorker(jobs, worker, b, rec[b].obj.uid)

\* No status is ahead of the spec it was written for.
ObservedWithinGeneration ==
  \A b \in Backups :
    backup[b].status.observedGeneration <= backup[b].generation

-----------------------------------------------------------------------------
(* What one step of the system may do to an object, to a Job and its       *)
(* worker, and to a Reconcile call.                                        *)

\* A user's edit, or nothing.
Edited(b) ==
  /\ backup'[b].uid = backup[b].uid /\ backup'[b].status = backup[b].status
  /\ backup'[b].generation >= backup[b].generation

\* A new incarnation, or none.
Replaced(b) ==
  /\ backup'[b].status = NewStatus
  /\ \/ backup'[b].uid = 0
     \/ backup'[b].uid = lastUid + 1 /\ lastUid' = lastUid + 1
  /\ backup'[b].uid # backup[b].uid

\* A status update, made from a copy that is the current object.
Marked(b) ==
  /\ Marking(b) /\ rec[b].obj = backup[b]
  /\ backup'[b] = [backup[b] EXCEPT !.status = StatusToWrite(b)]

Reported(b, j) ==
  /\ worker[j].pc \in {"stored", "failing"} /\ worker[j].obj = backup[b]
  /\ jobs[j].backup = b
  /\ backup'[b] = [backup[b] EXCEPT !.status = ReportedStatus(j)]

ObjectStep(b) ==
  \/ Edited(b) \/ Replaced(b) \/ Marked(b) \/ \E j \in JobIds : Reported(b, j)

LEMMA UserIsObjectStep ==
  ASSUME IInv, NEW c \in Backups, UserStep(c), NEW b \in Backups
  PROVE  ObjectStep(b)
<1>1. ASSUME NEW o, Put(c, o)
      PROVE  /\ backup'[c] = o
             /\ \A a \in Backups \ {c} : backup'[a] = backup[a]
  BY <1>1 DEF Put, IInv, TypeOK
<1>2. backup[b].generation \in Nat
  BY BoundsAssumption DEF IInv, TypeOK, Objects, Absent, Generations
<1>3. CASE c # b
  BY <1>1, <1>2, <1>3 DEF UserStep, CreateBackup, EditBackup, MarkDeleting,
     DeleteBackup, ObjectStep, Edited
<1>4. CASE c = b
  <2>1. CASE CreateBackup(b)
    <3>1. /\ backup'[b].uid = lastUid + 1 /\ lastUid' = lastUid + 1
          /\ backup'[b].status = NewStatus /\ backup[b].uid = 0
      BY <1>1, <1>4, <2>1 DEF CreateBackup, Exists
    <3>2. lastUid \in Nat
      BY BoundsAssumption DEF IInv, TypeOK
    <3> QED
      BY <3>1, <3>2 DEF ObjectStep, Replaced
  <2>2. CASE EditBackup(b)
    <3>1. backup[b] \in Objects
      BY <2>2, ExistingObjects DEF EditBackup, IInv, TypeOK
    <3>2. backup'[b] = [backup[b] EXCEPT !.generation = backup[b].generation + 1]
      BY <1>1, <1>4, <2>2 DEF EditBackup
    <3> QED
      BY <1>2, <3>1, <3>2 DEF ObjectStep, Edited, Objects
  <2>3. CASE MarkDeleting(b)
    <3>1. backup[b] \in Objects
      BY <2>3, ExistingObjects DEF MarkDeleting, IInv, TypeOK
    <3>2. backup'[b] = [backup[b] EXCEPT !.deleting = TRUE]
      BY <1>1, <1>4, <2>3 DEF MarkDeleting
    <3> QED
      BY <1>2, <3>1, <3>2 DEF ObjectStep, Edited, Objects
  <2>4. CASE DeleteBackup(b)
    <3>1. backup'[b] = Absent /\ backup[b].uid # 0
      BY <1>1, <1>4, <2>4 DEF DeleteBackup, Exists
    <3> QED
      BY <3>1 DEF ObjectStep, Replaced, Absent
  <2> QED
    BY <1>4, <2>1, <2>2, <2>3, <2>4 DEF UserStep
<1> QED
  BY <1>3, <1>4

LEMMA MarkStatusIsObjectStep ==
  ASSUME IInv, NEW c \in Backups, MarkStatus(c), NEW b \in Backups
  PROVE  ObjectStep(b)
<1>1. /\ UpdateStatus("reconciler", c, StatusToWrite(c)) /\ Marking(c)
      /\ StatusToWrite(c) \in Statuses
  BY StatusToWriteFacts DEF MarkStatus, IInv
<1>2. rec[c].obj = backup[c]
  BY <1>1 DEF UpdateStatus, UpdateAccepted, IInv, ManagerCopies, Marking
<1>3. /\ \A a \in Backups \ {c} : backup'[a] = backup[a]
      /\ backup'[c] = [backup[c] EXCEPT !.status = StatusToWrite(c)]
  BY <1>1, UpdateFacts DEF IInv
<1>4. backup[b].generation \in Nat
  BY BoundsAssumption DEF IInv, TypeOK, Objects, Absent, Generations
<1> QED
  BY <1>1, <1>2, <1>3, <1>4 DEF ObjectStep, Marked, Edited

LEMMA ReportIsObjectStep ==
  ASSUME IInv, NEW j \in JobIds, WorkerReport(j), NEW b \in Backups
  PROVE  ObjectStep(b)
<1>1. Busy(j) /\ worker[j].pc \in {"stored", "failing"}
  BY DEF WorkerReport, Busy
<1>2. PICK c \in Backups : c = jobs[j].backup
  BY <1>1 DEF IInv, WorkerCopies
<1>3. UpdateStatus(j, c, ReportedStatus(j))
  BY <1>2 DEF WorkerReport
<1>4. worker[j].obj = backup[c]
  BY <1>1, <1>2, <1>3 DEF UpdateStatus, UpdateAccepted, IInv, WorkerCopies
<1>5. ReportedStatus(j) \in Statuses
  BY <1>1, ArtifactType, StatusTypes
     DEF ReportedStatus, IInv, WorkerCopies, StoredBy
<1>6. /\ \A a \in Backups \ {c} : backup'[a] = backup[a]
      /\ backup'[c] = [backup[c] EXCEPT !.status = ReportedStatus(j)]
  BY <1>3, <1>5, UpdateFacts DEF IInv
<1>7. backup[b].generation \in Nat
  BY BoundsAssumption DEF IInv, TypeOK, Objects, Absent, Generations
<1> QED
  BY <1>1, <1>2, <1>4, <1>6, <1>7 DEF ObjectStep, Reported, Edited

LEMMA ObjectSteps ==
  ASSUME IInv, [Next]_vars, NEW b \in Backups
  PROVE  ObjectStep(b)
<1>1. ASSUME UNCHANGED backup PROVE ObjectStep(b)
  BY <1>1, BoundsAssumption
     DEF ObjectStep, Edited, IInv, TypeOK, Objects, Absent, Generations
<1>2. ASSUME NEW c \in Backups, ManagerStep(c) PROVE ObjectStep(b)
  BY <1>1, <1>2, MarkStatusIsObjectStep DEF ManagerStep, SyncBackup, Resync,
     ReconcilerStep, BackupReconcile, ClusterBackupReconcile, Reconcile,
     CreateJob, CreateJobReplyLost, CreateJobFails, MarkStatusFails
<1>3. ASSUME NEW j \in JobIds, JobStep(j) PROVE ObjectStep(b)
  BY <1>1, <1>3, ReportIsObjectStep DEF JobStep, WorkerStep, SyncJob,
     WorkerLoad, WorkerStore, WorkerFail, WorkerReportFails, PodKilled,
     JobDeadline, JobFinished, JobExpired
<1>4. CASE ManagerRestart \/ UNCHANGED vars
  BY <1>1, <1>4 DEF ManagerRestart, vars
<1> QED
  BY <1>2, <1>3, <1>4, UserIsObjectStep DEF Next

\* A Job that exists keeps its owner; a new one is made for the copy a
\* Reconcile call holds; only a worker that ended well makes one succeed, and
\* how a worker ended is final.
LEMMA JobSteps ==
  ASSUME IInv, [Next]_vars, NEW j \in JobIds
  PROVE  /\ jobs'[j] = jobs[j] \/
              IF jobs[j] = NoJob
                THEN \E b \in Backups : /\ rec[b].pc = "create"
                                        /\ rec'[b].pc # "create"
                                        /\ jobs'[j] = BuildBackupJob(b, rec[b].obj)
                ELSE /\ jobs'[j].backup = jobs[j].backup
                     /\ jobs'[j].uid = jobs[j].uid
                     /\ jobs'[j].state \in {"Succeeded", "Failed", "Deleted"}
                     /\ jobs[j].state # "Deleted"
                     /\ jobs'[j].state = "Succeeded" => worker[j].pc = "exit0"
         /\ worker[j].pc = "exit0" => worker'[j] = worker[j]
         /\ cachedJobs'[j] \in {cachedJobs[j], jobs[j]}
<1> DEFINE Kept == UNCHANGED <<jobs, cachedJobs, worker>>
<1>1. jobs[j] \in JobRecords /\ jobs \in [JobIds -> JobRecords]
  BY DEF IInv, TypeOK
<1>2. worker \in [JobIds -> WorkerRecords]
  BY DEF IInv, TypeOK
<1>3. cachedJobs \in [JobIds -> JobRecords]
  BY DEF IInv, TypeOK
<1>4. ASSUME NEW b \in Backups, UserStep(b) PROVE Kept
  BY <1>4 DEF UserStep, CreateBackup, EditBackup, MarkDeleting, DeleteBackup
<1>5. ASSUME NEW b \in Backups, ManagerStep(b),
             ~(CreateJob(b) \/ CreateJobReplyLost(b))
      PROVE  Kept
  BY <1>5 DEF ManagerStep, SyncBackup, Resync, ReconcilerStep, BackupReconcile,
     ClusterBackupReconcile, Reconcile, CreateJobFails, MarkStatus,
     MarkStatusFails
<1>6. ASSUME NEW b \in Backups, CreateJob(b) \/ CreateJobReplyLost(b)
      PROVE  /\ UNCHANGED <<cachedJobs, worker>>
             /\ rec[b].pc = "create" /\ rec'[b].pc # "create"
             /\ \E i \in JobIds :
                  /\ jobs[i] = NoJob
                  /\ jobs' = [jobs EXCEPT ![i] = BuildBackupJob(b, rec[b].obj)]
  <2>1. rec \in [Backups -> [pc : ReconcileStates, obj : Objects \cup {Absent}]]
    BY DEF IInv, TypeOK
  <2>2. rec'[b].pc # "create"
    BY <1>6, <2>1 DEF CreateJob, CreateJobReplyLost, Requeue, Idle
  <2> QED
    BY <1>6, <2>2 DEF CreateJob, CreateJobReplyLost
<1>7. ASSUME NEW b \in Backups, CreateJob(b) \/ CreateJobReplyLost(b)
      PROVE  jobs'[j] = jobs[j] \/ (jobs[j] = NoJob /\ jobs'[j] = BuildBackupJob(b, rec[b].obj))
  BY <1>1, <1>6, <1>7
<1>8. ASSUME NEW i \in JobIds, JobStep(i)
      PROVE  /\ \/ jobs'[j] = jobs[j]
                \/ /\ jobs[j] # NoJob
                   /\ jobs'[j].backup = jobs[j].backup
                   /\ jobs'[j].uid = jobs[j].uid
                   /\ jobs'[j].state \in {"Succeeded", "Failed", "Deleted"}
                   /\ jobs[j].state # "Deleted"
                   /\ jobs'[j].state = "Succeeded" => worker[j].pc = "exit0"
             /\ worker[j].pc = "exit0" => worker'[j] = worker[j]
             /\ cachedJobs'[j] \in {cachedJobs[j], jobs[j]}
  <2>1. CASE SyncJob(i)
    BY <1>3, <2>1 DEF SyncJob
  <2>2. CASE WorkerStep(i) \/ PodKilled(i)
    <3>1. UNCHANGED <<jobs, cachedJobs>>
      BY <2>2 DEF WorkerStep, WorkerLoad, WorkerStore, WorkerFail, WorkerReport,
         WorkerReportFails, PodKilled
    <3>2. worker[i].pc # "exit0" /\ \A k \in JobIds \ {i} : worker'[k] = worker[k]
      BY <1>2, <2>2 DEF WorkerStep, WorkerLoad, WorkerStore, WorkerFail,
         WorkerReport, WorkerReportFails, PodKilled, ExitWith, Exited
    <3> QED
      BY <3>1, <3>2
  <2>3. CASE JobDeadline(i) \/ JobFinished(i) \/ JobExpired(i)
    <3>1. PICK st \in {"Succeeded", "Failed", "Deleted"} :
            /\ jobs' = [jobs EXCEPT ![i].state = st]
            /\ st = "Succeeded" => worker[i].pc = "exit0"
      BY <2>3 DEF JobDeadline, JobFinished, JobExpired
    <3>2. /\ jobs[i].state \in {"Active", "Succeeded", "Failed"}
          /\ UNCHANGED <<cachedJobs, worker>>
      BY <2>3 DEF JobDeadline, JobFinished, JobExpired
    <3>3. jobs[i] \in [state : JobStates \ {"None"}, backup : Backups, uid : Uids]
      BY <1>1, <3>2 DEF JobRecords, NoJob
    <3>4. i # j => jobs'[j] = jobs[j]
      BY <1>1, <3>1
    <3>5. i = j => /\ jobs'[j].backup = jobs[j].backup
                   /\ jobs'[j].uid = jobs[j].uid
                   /\ jobs'[j].state = st
                   /\ jobs[j] # NoJob
      BY <1>1, <3>1, <3>2, <3>3 DEF NoJob
    <3> QED
      BY <3>1, <3>2, <3>4, <3>5
  <2> QED
    BY <1>8, <2>1, <2>2, <2>3 DEF JobStep
<1>9. CASE ManagerRestart
  BY <1>1, <1>3, <1>9 DEF ManagerRestart
<1>10. CASE UNCHANGED vars
  BY <1>10 DEF vars
<1> QED
  BY <1>4, <1>5, <1>6, <1>7, <1>8, <1>9, <1>10 DEF Next

\* The manager's copies: the cache follows the object; a Reconcile call keeps
\* the copy it has, ends, goes on after it created a Job, or starts with what
\* the cache shows.
Started(b) ==
  /\ rec'[b].obj = cached[b] /\ Decide(b, cached[b], rec'[b].pc)
  /\ UNCHANGED <<jobs, cachedJobs, worker>>

Created(b) ==
  /\ rec[b].pc = "create" /\ rec'[b].pc = "markRunning"
  /\ rec'[b].obj = rec[b].obj
  /\ \E j \in JobIds : jobs'[j] = BuildBackupJob(b, rec[b].obj)

LEMMA ManagerSteps ==
  ASSUME IInv, [Next]_vars, NEW b \in Backups
  PROVE  /\ cached'[b] \in {cached[b], backup[b]}
         /\ rec'[b] \in {rec[b], Idle} \/ Started(b) \/ Created(b)
<1>1. /\ rec \in [Backups -> [pc : ReconcileStates, obj : Objects \cup {Absent}]]
      /\ jobs \in [JobIds -> JobRecords]
      /\ cached \in [Backups -> Objects \cup {Absent}]
  BY DEF IInv, TypeOK
<1>2. ASSUME NEW c \in Backups, UserStep(c) PROVE UNCHANGED <<cached, rec>>
  BY <1>2 DEF UserStep, CreateBackup, EditBackup, MarkDeleting, DeleteBackup
<1>3. ASSUME NEW j \in JobIds, JobStep(j) PROVE UNCHANGED <<cached, rec>>
  BY <1>3 DEF JobStep, WorkerStep, SyncJob, WorkerLoad, WorkerStore, WorkerFail,
     WorkerReport, WorkerReportFails, PodKilled, JobDeadline, JobFinished,
     JobExpired
<1>4. ASSUME NEW c \in Backups, SyncBackup(c) \/ Resync(c)
      PROVE  UNCHANGED rec /\ cached'[b] \in {cached[b], backup[b]}
  BY <1>1, <1>4 DEF SyncBackup, Resync
<1>5. ASSUME NEW c \in Backups, Reconcile(c)
      PROVE  UNCHANGED cached /\ (rec'[b] = rec[b] \/ Started(b))
  <2>1. PICK pc \in ReconcileStates :
          /\ Decide(c, cached[c], pc)
          /\ \/ UNCHANGED rec
             \/ rec' = [rec EXCEPT ![c] = [pc |-> pc, obj |-> cached[c]]]
    BY <1>5 DEF Reconcile
  <2>2. UNCHANGED <<cached, jobs, cachedJobs, worker>>
    BY <1>5 DEF Reconcile
  <2> QED
    BY <1>1, <2>1, <2>2 DEF Started
<1>6. ASSUME NEW c \in Backups, CreateJob(c)
      PROVE  UNCHANGED cached /\ (rec'[b] = rec[b] \/ Created(b))
  BY <1>1, <1>6 DEF CreateJob, Created
<1>7. ASSUME NEW c \in Backups,
             \/ CreateJobReplyLost(c) \/ CreateJobFails(c) \/ MarkStatus(c)
             \/ MarkStatusFails(c)
      PROVE  UNCHANGED cached /\ rec'[b] \in {rec[b], Idle}
  BY <1>1, <1>7 DEF CreateJobReplyLost, CreateJobFails, MarkStatus,
     MarkStatusFails, Requeue
<1>8. CASE ManagerRestart \/ UNCHANGED vars
  BY <1>8 DEF ManagerRestart, vars
<1> QED
  BY <1>2, <1>3, <1>4, <1>5, <1>6, <1>7, <1>8
     DEF Next, ManagerStep, ReconcilerStep, BackupReconcile,
         ClusterBackupReconcile

-----------------------------------------------------------------------------
(* Running.                                                                *)

LEMMA JobsStay ==
  ASSUME IInv, [Next]_vars, NEW b \in Backups, NEW u, HasJob(jobs, b, u)
  PROVE  HasJob(jobs', b, u)
<1>1. PICK j \in JobIds : /\ jobs[j].state # "None"
                          /\ jobs[j].backup = b /\ jobs[j].uid = u
  BY DEF HasJob
<1>2. jobs[j] # NoJob
  BY <1>1 DEF NoJob
<1>3. /\ jobs'[j].state # "None"
      /\ jobs'[j].backup = b /\ jobs'[j].uid = u
  BY <1>1, <1>2, JobSteps
<1> QED
  BY <1>3 DEF HasJob

\* A new object and a missing one are neither Running nor Completed.
LEMMA NewPhase ==
  /\ Absent.status = NewStatus
  /\ NewStatus.phase # "Running" /\ NewStatus.phase # "Completed"
  /\ NewStatus.observedGeneration = 0
  BY DEF Absent, NewStatus

\* The phase each way of writing a status leaves.
LEMMA PhasesWritten ==
  ASSUME NEW o \in Objects
  PROVE  /\ RunningStatus(o).phase = "Running"
         /\ CompletedStatus(o).phase = "Completed"
         /\ FailedStatus(o).phase = "Failed"
         /\ WorkerFailedStatus(o).phase = "Failed"
         /\ \A a : WorkerCompletedStatus(o, a).phase = "Completed"
         /\ o \in Objects => o.status \in Statuses
  BY DEF Objects, Statuses, RunningStatus, CompletedStatus, FailedStatus,
     WorkerFailedStatus, WorkerCompletedStatus

LEMMA StatusWritten ==
  ASSUME NEW o \in Objects, NEW s
  PROVE  /\ [o EXCEPT !.status = s].status = s
         /\ [o EXCEPT !.status = s].uid = o.uid
         /\ [o EXCEPT !.status = s].generation = o.generation
  BY DEF Objects

\* What an accepted update of the controller leaves of b.
LEMMA MarkedFacts ==
  ASSUME IInv, NEW b \in Backups, Marked(b)
  PROVE  /\ backup[b] \in Objects
         /\ backup'[b].uid = backup[b].uid
         /\ backup'[b].generation = backup[b].generation
         /\ backup'[b].status = StatusToWrite(b)
         /\ rec[b].obj.uid = backup[b].uid
         /\ backup'[b].status.phase = "Running" => rec[b].pc = "markRunning"
         /\ backup'[b].status.phase = "Completed" => rec[b].pc = "markCompleted"
         /\ backup'[b].status.observedGeneration = backup[b].generation
<1>1. rec[b].obj = backup[b] /\ Marking(b)
  BY DEF Marked
<1>2. backup[b] \in Objects
  BY <1>1, ExistingObjects DEF IInv, TypeOK, ManagerCopies, Marking
<1>3. /\ backup'[b].uid = backup[b].uid
      /\ backup'[b].generation = backup[b].generation
      /\ backup'[b].status = StatusToWrite(b)
  BY <1>2, StatusWritten DEF Marked
<1>4. \/ rec[b].pc = "markRunning" /\ StatusToWrite(b) = RunningStatus(backup[b])
      \/ rec[b].pc = "markCompleted" /\ StatusToWrite(b) = CompletedStatus(backup[b])
      \/ rec[b].pc = "markFailed" /\ StatusToWrite(b) = FailedStatus(backup[b])
  BY <1>1 DEF Marking, StatusToWrite
<1>5. /\ RunningStatus(backup[b]).observedGeneration = backup[b].generation
      /\ CompletedStatus(backup[b]).observedGeneration = backup[b].generation
      /\ FailedStatus(backup[b]).observedGeneration = backup[b].generation
  BY <1>2 DEF RunningStatus, CompletedStatus, FailedStatus, Objects, Statuses
<1> QED
  BY <1>1, <1>2, <1>3, <1>4, <1>5, PhasesWritten

\* What an accepted report of a worker leaves of b.
LEMMA ReportedFacts ==
  ASSUME IInv, NEW b \in Backups, NEW j \in JobIds, Reported(b, j)
  PROVE  /\ backup[b] \in Objects
         /\ backup'[b].uid = backup[b].uid
         /\ backup'[b].generation = backup[b].generation
         /\ backup'[b].status.phase \in {"Completed", "Failed"}
         /\ backup'[b].status.phase = "Completed" =>
              backup'[b].status.artifactLocation # NoLocation
         /\ backup'[b].status.observedGeneration
              = backup[b].status.observedGeneration
         /\ worker[j].pc = "stored" \/ backup'[b].status.artifactLocation
                                        = backup[b].status.artifactLocation
<1>1. worker[j].obj = backup[b] /\ Busy(j)
  BY DEF Reported, Busy
<1>2. backup[b] \in Objects
  BY <1>1, ArtifactType
<1>3. /\ backup'[b].uid = backup[b].uid
      /\ backup'[b].generation = backup[b].generation
      /\ backup'[b].status = ReportedStatus(j)
  BY <1>2, StatusWritten DEF Reported
<1>4. \/ ReportedStatus(j) = WorkerCompletedStatus(backup[b], worker[j].location)
           /\ worker[j].location # NoLocation /\ worker[j].pc = "stored"
      \/ ReportedStatus(j) = WorkerFailedStatus(backup[b])
  BY <1>1, ArtifactType DEF ReportedStatus, IInv, WorkerCopies, StoredBy
<1>5. backup[b].status \in Statuses
  BY <1>2 DEF Objects
<1>6. /\ \A l : WorkerCompletedStatus(backup[b], l).artifactLocation = l
      /\ \A l : WorkerCompletedStatus(backup[b], l).observedGeneration
                = backup[b].status.observedGeneration
      /\ WorkerFailedStatus(backup[b]).observedGeneration
           = backup[b].status.observedGeneration
      /\ WorkerFailedStatus(backup[b]).artifactLocation
           = backup[b].status.artifactLocation
  BY <1>5 DEF WorkerCompletedStatus, WorkerFailedStatus, Statuses
<1> QED
  BY <1>2, <1>3, <1>4, <1>6, PhasesWritten

LEMMA RunningInvKept ==
  ASSUME IInv, RunningInv, [Next]_vars
  PROVE  RunningInv'
<1>1. ASSUME NEW b \in Backups, backup'[b].status.phase = "Running"
      PROVE  HasJob(jobs', b, backup'[b].uid)
  <2>1. CASE Edited(b)
    BY <1>1, <2>1, JobsStay DEF Edited, RunningInv, RunningHasJob, HasJob
  <2>2. CASE Replaced(b)
    BY <1>1, <2>2, NewPhase DEF Replaced
  <2>3. CASE Marked(b)
    <3>1. HasJob(jobs, b, backup'[b].uid)
      BY <1>1, <2>3, MarkedFacts DEF RunningInv
    <3> QED
      BY <3>1, JobsStay DEF HasJob
  <2>4. ASSUME NEW j \in JobIds, Reported(b, j) PROVE FALSE
    BY <1>1, <2>4, ReportedFacts
  <2> QED
    BY <2>1, <2>2, <2>3, <2>4, ObjectSteps DEF ObjectStep
<1>2. ASSUME NEW b \in Backups, rec'[b].pc = "markRunning"
      PROVE  HasJob(jobs', b, rec'[b].obj.uid)
  <2>1. CASE rec'[b] \in {rec[b], Idle}
    <3>1. rec'[b] = rec[b] /\ HasJob(jobs, b, rec'[b].obj.uid)
      BY <1>2, <2>1 DEF Idle, RunningInv
    <3> QED
      BY <3>1, JobsStay DEF HasJob
  <2>2. CASE Started(b)
    BY <1>2, <2>2 DEF Started, Decide, Verdict
  <2>3. CASE Created(b)
    BY <2>3 DEF Created, BuildBackupJob, HasJob
  <2> QED
    BY <2>1, <2>2, <2>3, ManagerSteps
<1> QED
  BY <1>1, <1>2 DEF RunningInv, RunningHasJob, HasJob

\* An object that says Running has a Job of its own, for any interleaving of
\* the controller with other writers and any number of restarts.
THEOREM RunningHasAJob == Spec => []RunningHasJob
<1>1. Init => RunningInv
  BY NewPhase DEF Init, RunningInv, RunningHasJob, Idle
<1>2. IInv /\ RunningInv /\ [Next]_vars => RunningInv'
  BY RunningInvKept
<1>3. RunningInv => RunningHasJob
  BY DEF RunningInv
<1> QED
  BY <1>1, <1>2, <1>3, IInvHolds, PTL DEF Spec

-----------------------------------------------------------------------------
(* Completed.                                                              *)

LEMMA FinishedWorkersStay ==
  ASSUME IInv, [Next]_vars, NEW b \in Backups, NEW u,
         HasFinishedWorker(jobs, worker, b, u)
  PROVE  HasFinishedWorker(jobs', worker', b, u)
<1>1. PICK j \in JobIds : /\ worker[j].pc = "exit0"
                          /\ jobs[j].backup = b /\ jobs[j].uid = u
  BY DEF HasFinishedWorker
<1>2. jobs[j] # NoJob
  BY <1>1, NamesAssumption DEF NoJob
<1>3. /\ worker'[j].pc = "exit0"
      /\ jobs'[j].backup = b /\ jobs'[j].uid = u
  BY <1>1, <1>2, JobSteps
<1> QED
  BY <1>3 DEF HasFinishedWorker

LEMMA SuccessStaysReal ==
  ASSUME IInv, SuccessIsReal, [Next]_vars
  PROVE  SuccessIsReal'
<1> SUFFICES ASSUME NEW j \in JobIds
             PROVE  /\ jobs'[j].state = "Succeeded" => worker'[j].pc = "exit0"
                    /\ cachedJobs'[j] # NoJob =>
                         /\ cachedJobs'[j].backup = jobs'[j].backup
                         /\ cachedJobs'[j].uid = jobs'[j].uid
                         /\ cachedJobs'[j].state = "Succeeded" =>
                              worker'[j].pc = "exit0"
  BY DEF SuccessIsReal
<1>1. /\ jobs[j].state = "Succeeded" => worker[j].pc = "exit0"
      /\ cachedJobs[j] # NoJob =>
           /\ cachedJobs[j].backup = jobs[j].backup
           /\ cachedJobs[j].uid = jobs[j].uid
           /\ cachedJobs[j].state = "Succeeded" => worker[j].pc = "exit0"
  BY DEF SuccessIsReal
<1>2. /\ worker[j].pc = "exit0" => worker'[j].pc = "exit0"
      /\ cachedJobs'[j] \in {cachedJobs[j], jobs[j]}
  BY JobSteps
<1>3. /\ jobs'[j].state = "Succeeded" => worker[j].pc = "exit0"
      /\ jobs[j] # NoJob => /\ jobs'[j].backup = jobs[j].backup
                            /\ jobs'[j].uid = jobs[j].uid
  <2>1. CASE jobs'[j] = jobs[j]
    BY <1>1, <2>1
  <2>2. CASE jobs'[j] # jobs[j] /\ jobs[j] = NoJob
    <3>1. PICK b \in Backups : jobs'[j] = BuildBackupJob(b, rec[b].obj)
      BY <2>2, JobSteps
    <3> QED
      BY <2>2, <3>1 DEF BuildBackupJob
  <2>3. CASE jobs'[j] # jobs[j] /\ jobs[j] # NoJob
    BY <2>3, JobSteps
  <2> QED
    BY <2>1, <2>2, <2>3
<1>4. cachedJobs[j] # NoJob => jobs[j] # NoJob
  <2>1. cachedJobs[j] # NoJob => cachedJobs[j].backup \in Backups
    BY DEF IInv, TypeOK, JobRecords
  <2> QED
    BY <1>1, <2>1, NamesAssumption DEF NoJob
<1> QED
  BY <1>1, <1>2, <1>3, <1>4

\* A Reconcile call that finds a succeeded Job finds one whose worker ended
\* with exit code 0, however old the list of Jobs it reads.
LEMMA FoundSuccessIsReal ==
  ASSUME SuccessIsReal, NEW b \in Backups, NEW o,
         Decide(b, o, "markCompleted")
  PROVE  HasFinishedWorker(jobs, worker, b, o.uid)
<1>1. PICK j \in JobIds : /\ cachedJobs[j].backup = b
                          /\ cachedJobs[j].uid = o.uid
                          /\ cachedJobs[j].state \notin {"None", "Deleted"}
                          /\ "markCompleted" = Verdict(cachedJobs[j], o.status)
  BY DEF Decide, FindJob
<1>2. cachedJobs[j].state = "Succeeded" /\ cachedJobs[j] # NoJob
  BY <1>1 DEF Verdict, NoJob
<1> QED
  BY <1>1, <1>2 DEF SuccessIsReal, HasFinishedWorker

LEMMA CompletedInvKept ==
  ASSUME IInv, CompletedInv, [Next]_vars
  PROVE  CompletedInv'
<1>1. ASSUME NEW b \in Backups, backup'[b].status.phase = "Completed",
             backup'[b].status.artifactLocation = NoLocation
      PROVE  HasFinishedWorker(jobs', worker', b, backup'[b].uid)
  <2>1. CASE Edited(b)
    <3>1. HasFinishedWorker(jobs, worker, b, backup[b].uid)
      BY <1>1, <2>1
         DEF Edited, CompletedInv, CompletedIsJustified, HasFinishedWorker
    <3> QED
      BY <2>1, <3>1, FinishedWorkersStay DEF Edited
  <2>2. CASE Replaced(b)
    BY <1>1, <2>2, NewPhase DEF Replaced
  <2>3. CASE Marked(b)
    <3>1. HasFinishedWorker(jobs, worker, b, backup'[b].uid)
      BY <1>1, <2>3, MarkedFacts DEF CompletedInv
    <3> QED
      BY <3>1, FinishedWorkersStay
  <2>4. ASSUME NEW j \in JobIds, Reported(b, j) PROVE FALSE
    BY <1>1, <2>4, ReportedFacts
  <2> QED
    BY <2>1, <2>2, <2>3, <2>4, ObjectSteps DEF ObjectStep
<1>2. ASSUME NEW b \in Backups, rec'[b].pc = "markCompleted"
      PROVE  HasFinishedWorker(jobs', worker', b, rec'[b].obj.uid)
  <2>1. CASE rec'[b] \in {rec[b], Idle}
    <3>1. HasFinishedWorker(jobs, worker, b, rec'[b].obj.uid)
      BY <1>2, <2>1 DEF Idle, CompletedInv
    <3> QED
      BY <3>1, FinishedWorkersStay
  <2>2. CASE Started(b)
    <3>1. HasFinishedWorker(jobs, worker, b, cached[b].uid)
      BY <1>2, <2>2, FoundSuccessIsReal DEF Started, CompletedInv
    <3> QED
      BY <2>2, <3>1, FinishedWorkersStay DEF Started
  <2>3. CASE Created(b)
    BY <1>2, <2>3 DEF Created
  <2> QED
    BY <2>1, <2>2, <2>3, ManagerSteps
<1>3. CompletedIsJustified'
  BY <1>1 DEF CompletedIsJustified, HasFinishedWorker
<1> QED
  BY <1>2, <1>3, SuccessStaysReal DEF CompletedInv

\* An object is Completed only when its artifact is published or a worker of
\* one of its own Jobs ended well, whatever the age of the Job list.
THEOREM CompletedJustified == Spec => []CompletedIsJustified
<1>1. Init => CompletedInv
  <2>1. Init => CompletedIsJustified
    BY NewPhase DEF Init, CompletedIsJustified
  <2>2. Init => SuccessIsReal
    BY DEF Init, SuccessIsReal, NoJob
  <2> QED
    BY <2>1, <2>2 DEF Init, CompletedInv, Idle
<1>2. IInv /\ CompletedInv /\ [Next]_vars => CompletedInv'
  BY CompletedInvKept
<1>3. CompletedInv => CompletedIsJustified
  BY DEF CompletedInv
<1> QED
  BY <1>1, <1>2, <1>3, IInvHolds, PTL DEF Spec

-----------------------------------------------------------------------------
(* The observed generation.                                                *)

LEMMA StatusNumbers ==
  ASSUME IInv, NEW b \in Backups
  PROVE  /\ backup[b].status.observedGeneration \in Nat
         /\ backup[b].generation \in Nat
<1>1. backup[b].status \in Statuses
  BY AbsentFacts DEF IInv, TypeOK, Objects
<1>2. backup[b].status.observedGeneration \in Nat
  BY <1>1, BoundsAssumption DEF Statuses
<1>3. backup[b].generation \in Nat
  BY BoundsAssumption DEF IInv, TypeOK, Objects, Absent, Generations
<1> QED
  BY <1>2, <1>3

LEMMA ObservedKept ==
  ASSUME IInv, IInv', ObservedWithinGeneration, [Next]_vars
  PROVE  /\ ObservedWithinGeneration'
         /\ \A b \in Backups :
              backup'[b].uid = backup[b].uid =>
                backup'[b].status.observedGeneration
                  >= backup[b].status.observedGeneration
<1> SUFFICES ASSUME NEW b \in Backups
             PROVE  /\ backup'[b].status.observedGeneration <= backup'[b].generation
                    /\ backup'[b].uid = backup[b].uid =>
                         backup'[b].status.observedGeneration
                           >= backup[b].status.observedGeneration
  BY DEF ObservedWithinGeneration
<1>1. /\ backup[b].status.observedGeneration \in Nat
      /\ backup[b].generation \in Nat
      /\ backup[b].status.observedGeneration <= backup[b].generation
  BY StatusNumbers DEF ObservedWithinGeneration
<1>2. backup'[b].generation \in Nat
  BY BoundsAssumption DEF IInv, TypeOK, Objects, Absent, Generations
<1>3. CASE Edited(b)
  BY <1>1, <1>2, <1>3 DEF Edited
<1>4. CASE Replaced(b)
  BY <1>2, <1>4, NewPhase DEF Replaced
<1>5. CASE Marked(b)
  BY <1>1, <1>5, MarkedFacts
<1>6. ASSUME NEW j \in JobIds, Reported(b, j)
      PROVE  /\ backup'[b].status.observedGeneration
                  = backup[b].status.observedGeneration
             /\ backup'[b].generation = backup[b].generation
  BY <1>6, ReportedFacts
<1> QED
  BY <1>1, <1>3, <1>4, <1>5, <1>6, ObjectSteps DEF ObjectStep

\* The observed generation of an incarnation never goes back, whoever writes
\* the status and from however old a copy it tries to.
THEOREM ObservedGenerationNeverGoesBack == Spec => ObservedGenerationMonotone
<1>1. Init => ObservedWithinGeneration
  BY NewPhase DEF Init, ObservedWithinGeneration, Absent
<1>2. IInv /\ IInv' /\ ObservedWithinGeneration /\ [Next]_vars
        => ObservedWithinGeneration'
  BY ObservedKept
<1>3. IInv /\ IInv' /\ ObservedWithinGeneration /\ [Next]_vars
        => [\A b \in Backups :
              backup'[b].uid = backup[b].uid =>
                backup'[b].status.observedGeneration
                  >= backup[b].status.observedGeneration]_vars
  BY ObservedKept
<1> QED
  BY <1>1, <1>2, <1>3, IInvHolds, PTL DEF Spec, ObservedGenerationMonotone

-----------------------------------------------------------------------------
(* Who replaces a published location.                                      *)

\* The location of an incarnation is replaced only by a worker that loaded the
\* object when it had that location already: of two Jobs that a lagging list
\* made run together, the second to report is refused.
THEOREM PublicationKept == Spec => PublicationNotOverwritten
<1>1. ASSUME IInv, [Next]_vars, NEW b \in Backups,
             backup'[b].uid = backup[b].uid,
             backup'[b].status.artifactLocation # backup[b].status.artifactLocation
      PROVE  \E j \in JobIds :
               /\ worker[j].pc = "stored" /\ jobs[j].backup = b
               /\ worker[j].obj.uid = backup[b].uid
               /\ worker[j].obj.status.artifactLocation
                    = backup[b].status.artifactLocation
  <2>1. ~Edited(b) /\ ~Replaced(b)
    BY <1>1 DEF Edited, Replaced
  <2>2. ~Marked(b)
    <3>1. Marked(b) => StatusToWrite(b).artifactLocation
                         = backup[b].status.artifactLocation
      BY <1>1, StatusToWriteFacts DEF Marked, IInv
    <3> QED
      BY <1>1, <3>1, MarkedFacts
  <2>3. PICK j \in JobIds : Reported(b, j)
    BY <1>1, <2>1, <2>2, ObjectSteps DEF ObjectStep
  <2>4. worker[j].pc = "stored"
    BY <1>1, <2>3, ReportedFacts
  <2> QED
    BY <2>3, <2>4 DEF Reported
<1>2. IInv /\ [Next]_vars
        => [\A b \in Backups :
              LET l == backup[b].status.artifactLocation IN
                /\ l # NoLocation
                /\ backup'[b].uid = backup[b].uid
                /\ backup'[b].status.artifactLocation # l
                => \E j \in JobIds :
                     /\ worker[j].pc = "stored" /\ jobs[j].backup = b
                     /\ worker[j].obj.uid = backup[b].uid
                     /\ worker[j].obj.status.artifactLocation = l]_vars
  BY <1>1
<1> QED
  BY <1>2, IInvHolds, PTL DEF Spec, PublicationNotOverwritten

===============================================================================
