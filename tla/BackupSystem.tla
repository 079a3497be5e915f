----------------------------- MODULE BackupSystem -----------------------------
(***************************************************************************)
(* The life of Backup and ClusterBackup objects: the controllers and the   *)
(* workers, composed with what surrounds them - users who create, edit and *)
(* delete objects, the informer caches of the manager, the Job controller  *)
(* and the kubelet that run and stop the workers, and restarts of the      *)
(* manager.                                                                *)
(***************************************************************************)
EXTENDS BackupReconciler, BackupWorker

-----------------------------------------------------------------------------
(* Users.                                                                  *)

CreateBackup(b) ==
  /\ ~Exists(backup[b]) /\ lastUid < MaxUid
  /\ lastUid' = lastUid + 1
  /\ Put(b, [uid |-> lastUid + 1, generation |-> 1, deleting |-> FALSE,
             status |-> NewStatus])
  /\ UNCHANGED <<cached, queue, rec, jobs, cachedJobs, worker, store>>

\* A write to the spec increments the generation and keeps the status.
EditBackup(b) ==
  /\ Exists(backup[b]) /\ backup[b].generation < MaxGeneration
  /\ Put(b, [backup[b] EXCEPT !.generation = @ + 1])
  /\ UNCHANGED <<lastUid, cached, queue, rec, jobs, cachedJobs, worker, store>>

\* A delete that waits for a finalizer sets deletionTimestamp first.
MarkDeleting(b) ==
  /\ Finalizers /\ Exists(backup[b]) /\ ~backup[b].deleting
  /\ Put(b, [backup[b] EXCEPT !.deleting = TRUE])
  /\ UNCHANGED <<lastUid, cached, queue, rec, jobs, cachedJobs, worker, store>>

\* Jobs have no owner reference: those of a deleted object stay.
DeleteBackup(b) ==
  /\ Exists(backup[b])
  /\ Put(b, Absent)
  /\ UNCHANGED <<lastUid, cached, queue, rec, jobs, cachedJobs, worker, store>>

-----------------------------------------------------------------------------
(* The manager: its informers, its workqueues and its restarts.            *)

\* The informer applies an event of an object and queues its reconcile.
SyncBackup(b) ==
  /\ "cache" \notin fresh[b]
  /\ cached' = [cached EXCEPT ![b] = backup[b]]
  /\ fresh' = [fresh EXCEPT ![b] = @ \cup {"cache"}]
  /\ queue' = queue \cup {b}
  /\ UNCHANGED <<lastUid, backup, rec, jobs, cachedJobs, worker, store>>

\* The informer's periodic resync queues every object it knows.
Resync(b) ==
  /\ Exists(cached[b]) /\ b \notin queue
  /\ queue' = queue \cup {b}
  /\ UNCHANGED <<lastUid, backup, fresh, cached, rec, jobs, cachedJobs, worker,
                 store>>

\* Controllers watch their own kind only: the event of a Job queues nothing.
SyncJob(j) ==
  /\ cachedJobs[j] # jobs[j]
  /\ cachedJobs' = [cachedJobs EXCEPT ![j] = jobs[j]]
  /\ UNCHANGED <<lastUid, backup, fresh, cached, queue, rec, jobs, worker,
                 store>>

\* What a Reconcile call had read is lost.  The caches are filled again
\* before the controllers start, and every object is queued.
ManagerRestart ==
  /\ rec' = [b \in Backups |-> Idle]
  /\ cached' = backup
  /\ fresh' = [b \in Backups |-> (fresh[b] \cup {"cache"}) \ {"reconciler"}]
  /\ cachedJobs' = jobs
  /\ queue' = {b \in Backups : Exists(backup[b])}
  /\ UNCHANGED <<lastUid, backup, jobs, worker, store>>

-----------------------------------------------------------------------------
(* The Job controller and the kubelet.                                     *)

\* The process dies without reporting: eviction, OOM, a node that is lost.
PodKilled(j) ==
  /\ jobs[j].state \in {"Active", "Failed"} /\ ~Exited(j)
  /\ ExitWith(j, "exit1")
  /\ UNCHANGED <<lastUid, backup, fresh, cached, queue, rec, jobs, cachedJobs,
                 store>>

\* activeDeadlineSeconds: the Job has failed, the pod is being terminated.
JobDeadline(j) ==
  /\ jobs[j].state = "Active"
  /\ jobs' = [jobs EXCEPT ![j].state = "Failed"]
  /\ UNCHANGED <<lastUid, backup, fresh, cached, queue, rec, cachedJobs, worker,
                 store>>

\* backoffLimit is 0: the exit code of the one pod decides.
JobFinished(j) ==
  /\ jobs[j].state = "Active" /\ Exited(j)
  /\ jobs' = [jobs EXCEPT ![j].state =
                IF worker[j].pc = "exit0" THEN "Succeeded" ELSE "Failed"]
  /\ UNCHANGED <<lastUid, backup, fresh, cached, queue, rec, cachedJobs, worker,
                 store>>

\* ttlSecondsAfterFinished.
JobExpired(j) ==
  /\ jobs[j].state \in {"Succeeded", "Failed"} /\ Exited(j)
  /\ jobs' = [jobs EXCEPT ![j].state = "Deleted"]
  /\ UNCHANGED <<lastUid, backup, fresh, cached, queue, rec, cachedJobs, worker,
                 store>>

-----------------------------------------------------------------------------
Init ==
  /\ lastUid = 0
  /\ backup = [b \in Backups |-> Absent]
  /\ fresh = [b \in Backups |-> {"cache"}]
  /\ cached = backup
  /\ queue = {}
  /\ rec = [b \in Backups |-> Idle]
  /\ jobs = [j \in JobIds |-> NoJob]
  /\ cachedJobs = jobs
  /\ worker = [j \in JobIds |-> NotStarted]
  /\ store = {}

UserStep(b) ==
  \/ CreateBackup(b) \/ EditBackup(b) \/ MarkDeleting(b) \/ DeleteBackup(b)

ManagerStep(b) == SyncBackup(b) \/ Resync(b) \/ ReconcilerStep(b)

JobStep(j) ==
  \/ SyncJob(j) \/ WorkerStep(j)
  \/ PodKilled(j) \/ JobDeadline(j) \/ JobFinished(j) \/ JobExpired(j)

Next ==
  \/ \E b \in Backups : UserStep(b) \/ ManagerStep(b)
  \/ \E j \in JobIds : JobStep(j)
  \/ ManagerRestart

Spec == Init /\ [][Next]_vars

\* The manager's loops and the Job controller keep running, and a call that
\* is retried for ever succeeds at last.  Nothing is assumed of the users, of
\* restarts, or of how long a worker takes.
Fairness ==
  /\ \A b \in Backups :
       /\ WF_vars(SyncBackup(b)) /\ WF_vars(Resync(b))
       /\ WF_vars(BackupReconcile(b)) /\ WF_vars(ClusterBackupReconcile(b))
       /\ WF_vars(CreateJobFails(b)) /\ WF_vars(MarkStatusFails(b))
       /\ SF_vars(CreateJob(b)) /\ SF_vars(MarkStatus(b))
  /\ \A j \in JobIds : WF_vars(SyncJob(j)) /\ WF_vars(JobFinished(j))

FairSpec == Spec /\ Fairness

-----------------------------------------------------------------------------
(* Properties.                                                             *)

\* Every variable has its type; a phase is one of those the API declares
\* (common_types.go).
TypeOK ==
  /\ lastUid \in 0..MaxUid
  /\ backup \in [Backups -> Objects \cup {Absent}]
  /\ fresh \in [Backups -> SUBSET Holders]
  /\ cached \in [Backups -> Objects \cup {Absent}]
  /\ queue \subseteq Backups
  /\ rec \in [Backups -> [pc : ReconcileStates, obj : Objects \cup {Absent}]]
  /\ jobs \in [JobIds -> JobRecords]
  /\ cachedJobs \in [JobIds -> JobRecords]
  /\ worker \in [JobIds -> WorkerRecords]
  /\ store \subseteq Artifacts

\* The artifactLocation of an object is a path of its own, and under a path of
\* S3 an artifact was put that was made from this incarnation of the object,
\* whatever Jobs of an earlier incarnation, duplicate Jobs and late workers do
\* (worker_backup.go: the worker loads the object by name, stores, then
\* reports).
PublishedArtifactSound ==
  \A b \in Backups :
    LET l == backup[b].status.artifactLocation IN
      l # NoLocation =>
        /\ l.backup = b
        /\ l \in PodLocations
           \/ \E a \in store : a.location = l /\ a.uid = backup[b].uid

\* An object is Running only if a Job was created for this very incarnation:
\* the update that says so comes after Create succeeded, and a retry, a
\* restart or a stale cache cannot move it to another incarnation
\* (backup_controller.go:62-72).
RunningHasJob ==
  \A b \in Backups :
    backup[b].status.phase = "Running" =>
      \E j \in JobIds : /\ jobs[j].state # "None"
                        /\ jobs[j].backup = b /\ jobs[j].uid = backup[b].uid

\* An object is Completed only if its artifact was published or a worker of
\* one of its own Jobs ended with exit code 0: no crash, deadline, refused
\* report or stale Job list makes the controller say Completed.
CompletedIsJustified ==
  \A b \in Backups :
    backup[b].status.phase = "Completed" =>
      \/ backup[b].status.artifactLocation # NoLocation
      \/ \E j \in JobIds : /\ worker[j].pc = "exit0"
                           /\ jobs[j].backup = b /\ jobs[j].uid = backup[b].uid

\* The artifactLocation of an incarnation is replaced only by a worker that
\* loaded the object when it had that location already.  The informer cache
\* findJob reads (job_builder.go:66) may hide a Job that was just created, so
\* one object can have two Jobs at once; of those that ran together only the
\* first to report publishes, and the report of the others is refused.
PublicationNotOverwritten ==
  [][\A b \in Backups :
       LET l == backup[b].status.artifactLocation IN
         /\ l # NoLocation
         /\ backup'[b].uid = backup[b].uid
         /\ backup'[b].status.artifactLocation # l
         => \E j \in JobIds : /\ worker[j].pc = "stored" /\ jobs[j].backup = b
                              /\ worker[j].obj.uid = backup[b].uid
                              /\ worker[j].obj.status.artifactLocation = l]_vars

\* The observedGeneration of an incarnation never goes back, although the
\* worker writes back the one it read when it started and the controller
\* writes the one of its cache.
ObservedGenerationMonotone ==
  [][\A b \in Backups :
       backup'[b].uid = backup[b].uid =>
         backup'[b].status.observedGeneration
           >= backup[b].status.observedGeneration]_vars

Incarnation(o) == [uid |-> o.uid, generation |-> o.generation]

Ledger ==
  INSTANCE BackupLedger WITH
    Names <- Backups, Unshared <- PodLocations, Nowhere <- NoLocation,
    last <- lastUid, stored <- store,
    current <- [b \in Backups |-> Incarnation(backup[b])],
    published <- [b \in Backups |-> backup[b].status.artifactLocation]

\* The statuses of all objects together implement the ledger: a location of S3
\* is published only when an artifact was put there, and only for the
\* incarnation and generation that was made from; a published location is
\* never taken back while the incarnation lives.
LedgerImplemented == Ledger!Spec

JobNamesLeft == \E j \in JobIds : jobs[j] = NoJob

HasLiveJob(b) ==
  \E j \in JobIds : /\ jobs[j].state \notin {"None", "Deleted"}
                    /\ jobs[j].backup = b /\ jobs[j].uid = backup[b].uid

\* A new object is acted on, whatever is lost on the way: it gets a phase or
\* a Job, unless the object goes away first (or the model has no Job name
\* left).  It may have the Job and no phase: a Reconcile call that finds the
\* Job does not write Running (backup_controller.go:77-89).
PickedUp ==
  \A b \in Backups :
    Exists(backup[b]) ~> \/ backup[b].status.phase # "" \/ HasLiveJob(b)
                         \/ ~Exists(backup[b]) \/ backup[b].deleting
                         \/ ~JobNamesLeft

\* A Job that ends without a report from its worker is found by the resync:
\* the status gets an end phase, unless the Job expires or the object goes
\* away before, or the object has a second Job, which findJob may look at
\* instead.
FinishedJobReported ==
  \A b \in Backups, j \in JobIds, u \in Uids :
    (/\ jobs[j] \in [state : {"Succeeded", "Failed"}, backup : {b}, uid : {u}]
     /\ backup[b].uid = u)
      ~> \/ backup[b].status.phase \in {"Completed", "Failed"}
         \/ jobs[j].state = "Deleted"
         \/ \E i \in JobIds \ {j} : jobs[i].uid = u
         \/ backup[b].uid # u \/ backup[b].deleting

-----------------------------------------------------------------------------
(* What the documentation or the code says and the code does not keep.     *)

\* A Completed object has an artifact location: a restore takes an empty one
\* as "not ready yet" (restore_controller.go:48) and waits for it.
CompletedHasArtifact ==
  \A b \in Backups :
    backup[b].status.phase = "Completed" =>
      backup[b].status.artifactLocation # NoLocation

=============================================================================
