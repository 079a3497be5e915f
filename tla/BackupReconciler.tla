-------------------------- MODULE BackupReconciler ---------------------------
(***************************************************************************)
(* The Backup and ClusterBackup controllers.  A Reconcile call has up to   *)
(* three parts that other processes can run between: it reads the object   *)
(* and its Jobs from the manager's caches (Reconcile), creates a Job       *)
(* (CreateJob), and updates the status of the object (MarkStatus).  Both   *)
(* controllers run the same code on objects of their kind.                 *)
(***************************************************************************)
EXTENDS BackupObjects

Idle == [pc |-> "idle", obj |-> Absent]

ReconcileStates ==
  {"idle", "create", "markRunning", "markCompleted", "markFailed"}

-----------------------------------------------------------------------------
\* Mutant: a failed Job is not taken for the object's Job.
FindJobNotFailed(b, o) ==
  {j \in JobIds : /\ cachedJobs[j].state \in {"Active", "Succeeded"}
                  /\ cachedJobs[j].uid = o.uid
                  /\ cachedJobs[j].backup = b}

\* The Jobs whose owner labels name this incarnation of b.
FindJob(b, o) ==
  {j \in JobIds : /\ cachedJobs[j].state \notin {"None", "Deleted"}
                  /\ cachedJobs[j].uid = o.uid
                  /\ cachedJobs[j].backup = b}

\* Mutant: any Job that ended completes the object.
VerdictAnyEnd(job, status) ==
  IF job.state \in {"Succeeded", "Failed"} /\ status.phase # "Completed"
    THEN "markCompleted"
    ELSE "idle"

\* Mutant: failed Jobs are not looked at.
VerdictNoFailure(job, status) ==
  IF job.state = "Succeeded" /\ status.phase # "Completed"
    THEN "markCompleted"
    ELSE "idle"

\* What is left to do when a Job was found: nothing, or a status update.
Verdict(job, status) ==
  CASE job.state = "Succeeded" /\ status.phase # "Completed" -> "markCompleted"
    [] job.state = "Failed" /\ status.phase # "Failed" -> "markFailed"
    [] OTHER -> "idle"

\* Mutant: the deletionTimestamp is tested the wrong way round.
DecideOnDeleted(b, o, pc) ==
  \/ ~Exists(o) /\ pc = "idle"
  \/ ~o.deleting /\ pc = "idle"
  \/ Exists(o) /\ o.deleting /\ FindJob(b, o) = {} /\ pc \in {"create", "markFailed"}

\* The read part of Reconcile: the object is gone or being deleted; or it has
\* no Job, and the storage location resolves or it does not; or it has a Job
\* (any one that matches: a cache lists them in no particular order).
Decide(b, o, pc) ==
  \/ ~Exists(o) /\ pc = "idle"
  \/ o.deleting /\ pc = "idle"
  \/ /\ Exists(o) /\ ~o.deleting
     /\ FindJob(b, o) = {}
     /\ pc \in {"create", "markFailed"}
  \/ /\ Exists(o) /\ ~o.deleting
     /\ \E j \in FindJob(b, o) : pc = Verdict(cachedJobs[j], o.status)

Reconcile(b) ==
  /\ b \in queue /\ rec[b].pc = "idle"
  /\ queue' = queue \ {b}
  /\ \E pc \in ReconcileStates :
       /\ Decide(b, cached[b], pc)
       /\ IF pc = "idle"
            THEN UNCHANGED <<rec, fresh>>
            ELSE /\ rec' = [rec EXCEPT ![b] = [pc |-> pc, obj |-> cached[b]]]
                 /\ fresh' = [fresh EXCEPT ![b] =
                                IF "cache" \in @ THEN @ \cup {"reconciler"}
                                                 ELSE @ \ {"reconciler"}]
  /\ UNCHANGED <<lastUid, backup, cached, jobs, cachedJobs, worker, store>>

BackupReconcile(b) == b \in Namespaced /\ Reconcile(b)

ClusterBackupReconcile(b) == b \notin Namespaced /\ Reconcile(b)

\* A Reconcile call that returns an error is put back on the queue.
Requeue(b) ==
  /\ rec' = [rec EXCEPT ![b] = Idle]
  /\ queue' = queue \cup {b}

BuildBackupJob(b, o) == [state |-> "Active", backup |-> b, uid |-> o.uid]

\* The Job is created under a name of its own.  The call may also fail, or
\* succeed while its reply is lost: then Reconcile returns the error.
CreateJob(b) ==
  /\ rec[b].pc = "create"
  /\ \E j \in JobIds :
       /\ jobs[j] = NoJob
       /\ jobs' = [jobs EXCEPT ![j] = BuildBackupJob(b, rec[b].obj)]
  /\ rec' = [rec EXCEPT ![b].pc = "markRunning"]
  /\ UNCHANGED <<lastUid, backup, fresh, cached, queue, cachedJobs, worker,
                 store>>

CreateJobReplyLost(b) ==
  /\ rec[b].pc = "create"
  /\ \E j \in JobIds :
       /\ jobs[j] = NoJob
       /\ jobs' = [jobs EXCEPT ![j] = BuildBackupJob(b, rec[b].obj)]
  /\ Requeue(b)
  /\ UNCHANGED <<lastUid, backup, fresh, cached, cachedJobs, worker, store>>

\* Mutant: the error of Create is ignored.
CreateJobErrorIgnored(b) ==
  /\ rec[b].pc = "create"
  /\ rec' = [rec EXCEPT ![b].pc = "markRunning"]
  /\ UNCHANGED <<lastUid, backup, fresh, cached, queue, jobs, cachedJobs, worker,
                 store>>

CreateJobFails(b) ==
  /\ rec[b].pc = "create"
  /\ Requeue(b)
  /\ UNCHANGED <<lastUid, backup, fresh, cached, jobs, cachedJobs, worker,
                 store>>

\* The status the reconcile of b writes when it gets to its update.
StatusToWrite(b) ==
  CASE rec[b].pc = "markRunning" -> RunningStatus(rec[b].obj)
    [] rec[b].pc = "markCompleted" -> CompletedStatus(rec[b].obj)
    [] rec[b].pc = "markFailed" -> FailedStatus(rec[b].obj)

Marking(b) == rec[b].pc \in {"markRunning", "markCompleted", "markFailed"}

MarkStatus(b) ==
  /\ Marking(b)
  /\ UpdateStatus("reconciler", b, StatusToWrite(b))
  /\ rec' = [rec EXCEPT ![b] = Idle]
  /\ UNCHANGED <<lastUid, cached, queue, jobs, cachedJobs, worker, store>>

\* Conflict, NotFound or an API error: the update has no effect.
MarkStatusFails(b) ==
  /\ Marking(b)
  /\ Requeue(b)
  /\ UNCHANGED <<lastUid, backup, fresh, cached, jobs, cachedJobs, worker,
                 store>>

ReconcilerStep(b) ==
  \/ BackupReconcile(b) \/ ClusterBackupReconcile(b)
  \/ CreateJob(b) \/ CreateJobReplyLost(b) \/ CreateJobFails(b)
  \/ MarkStatus(b) \/ MarkStatusFails(b)

=============================================================================
