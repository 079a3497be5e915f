-------------------------- MODULE RestoreReconciler ---------------------------
(***************************************************************************)
(* The Restore and ClusterRestore controllers.  Like that of a backup, a   *)
(* Reconcile call reads from the caches, may create a Job, and may update  *)
(* the status; it also reads the source backup, and comes back after ten   *)
(* seconds while that has no artifact location.                            *)
(***************************************************************************)
EXTENDS RestoreObjects

Idle == [pc |-> "idle", obj |-> Absent]

ReconcileStates ==
  {"idle", "create", "markRunning", "markCompleted", "markFailed"}

-----------------------------------------------------------------------------
\* The Jobs whose owner labels name this incarnation of r.
FindJob(r, o) ==
  {j \in JobIds : /\ cachedJobs[j].state \notin {"None", "Deleted"}
                  /\ cachedJobs[j].uid = o.uid
                  /\ cachedJobs[j].restore = r}

\* sourceRef.namespace is required for a Backup and ignored for a ClusterBackup.
Resolvable(ref) == ref.source \in NamespacedSources => ref.namespace

\* getBackupForRestore returns the source, or an error.
GetBackupForRestore(o) ==
  IF Resolvable(o.ref) THEN cachedSource[o.ref.source] ELSE NoSource

\* Mutant: any Job that ended completes the restore.
VerdictAnyEnd(job, phase) ==
  IF job.state \in {"Succeeded", "Failed"} /\ phase # "Completed"
    THEN "markCompleted"
    ELSE "idle"

Verdict(job, phase) ==
  CASE job.state = "Succeeded" /\ phase # "Completed" -> "markCompleted"
    [] job.state = "Failed" /\ phase # "Failed" -> "markFailed"
    [] OTHER -> "idle"

\* Mutant: the location of the source is not looked at.
DecideUnlocated(r, o, pc) ==
  LET s == GetBackupForRestore(o) IN
    \/ s.uid = 0 /\ pc = "markFailed"
    \/ s.uid # 0 /\ FindJob(r, o) = {} /\ pc \in {"create", "markFailed"}
    \/ s.uid # 0 /\ \E j \in FindJob(r, o) : pc = Verdict(cachedJobs[j], o.phase)

\* What is left to do for a restore that is there and not being deleted: the
\* source is missing, whatever the phase and the Job say; or it is not ready;
\* or there is no Job, and the storage location resolves or does not; or there
\* is one.
Decide(r, o, pc) ==
  LET s == GetBackupForRestore(o) IN
    \/ s.uid = 0 /\ pc = "markFailed"
    \/ s.uid # 0 /\ s.location = NoLocation /\ pc = "wait"
    \/ /\ s.location # NoLocation
       /\ \/ FindJob(r, o) = {} /\ pc \in {"create", "markFailed"}
          \/ \E j \in FindJob(r, o) : pc = Verdict(cachedJobs[j], o.phase)

Dequeue(r) ==
  /\ r \in queue /\ rec[r].pc = "idle"
  /\ queue' = queue \ {r}
  /\ UNCHANGED <<lastUid, restore, cached, cachedJobs, cachedSource, jobs, worker,
                 applied, sources>>

\* The object is gone or being deleted.
ReconcileNothing(r) ==
  /\ Dequeue(r)
  /\ ~Exists(cached[r]) \/ cached[r].deleting
  /\ UNCHANGED <<rec, fresh, waiting>>

\* Mutant: the reconcile does not come back.
ReconcileWaitForgets(r) ==
  /\ Dequeue(r)
  /\ Exists(cached[r]) /\ ~cached[r].deleting /\ Decide(r, cached[r], "wait")
  /\ UNCHANGED <<rec, fresh, waiting>>

ReconcileWait(r) ==
  /\ Dequeue(r)
  /\ Exists(cached[r]) /\ ~cached[r].deleting /\ Decide(r, cached[r], "wait")
  /\ waiting' = waiting \cup {r}
  /\ UNCHANGED <<rec, fresh>>

ReconcileDecides(r) ==
  /\ Dequeue(r)
  /\ Exists(cached[r]) /\ ~cached[r].deleting
  /\ \E pc \in ReconcileStates :
       /\ Decide(r, cached[r], pc)
       /\ IF pc = "idle"
            THEN UNCHANGED <<rec, fresh>>
            ELSE /\ rec' = [rec EXCEPT ![r] = [pc |-> pc, obj |-> cached[r]]]
                 /\ fresh' = [fresh EXCEPT ![r] =
                                IF "cache" \in @ THEN @ \cup {"reconciler"}
                                                 ELSE @ \ {"reconciler"}]
  /\ UNCHANGED waiting

Reconcile(r) == ReconcileNothing(r) \/ ReconcileWait(r) \/ ReconcileDecides(r)

RestoreReconcile(r) == r \in Namespaced /\ Reconcile(r)

ClusterRestoreReconcile(r) == r \notin Namespaced /\ Reconcile(r)

\* The delay of RequeueAfter is over.
RequeueAfter(r) ==
  /\ r \in waiting
  /\ waiting' = waiting \ {r}
  /\ queue' = queue \cup {r}
  /\ UNCHANGED <<objects, cached, rec, cachedJobs, cachedSource, jobs, worker,
                 applied, sources>>

\* A Reconcile call that returns an error is put back on the queue.
Requeue(r) ==
  /\ rec' = [rec EXCEPT ![r] = Idle]
  /\ queue' = queue \cup {r}
  /\ UNCHANGED <<cached, waiting, cachedJobs, cachedSource>>

BuildRestoreJob(r, o) == [state |-> "Active", restore |-> r, uid |-> o.uid]

JobIsCreated(r) ==
  \E j \in JobIds :
    /\ jobs[j] = NoJob
    /\ jobs' = [jobs EXCEPT ![j] = BuildRestoreJob(r, rec[r].obj)]

CreateJob(r) ==
  /\ rec[r].pc = "create"
  /\ JobIsCreated(r)
  /\ rec' = [rec EXCEPT ![r].pc = "markRunning"]
  /\ UNCHANGED <<objects, cached, queue, waiting, cachedJobs, cachedSource, worker,
                 applied, sources>>

CreateJobReplyLost(r) ==
  /\ rec[r].pc = "create"
  /\ JobIsCreated(r)
  /\ Requeue(r)
  /\ UNCHANGED <<objects, worker, applied, sources>>

CreateJobFails(r) ==
  /\ rec[r].pc = "create"
  /\ Requeue(r)
  /\ UNCHANGED <<objects, jobs, worker, applied, sources>>

\* Mutant: a phase that the API does not declare.
PhaseToWriteUndeclared(r) ==
  CASE rec[r].pc = "markRunning" -> "Started"
    [] rec[r].pc = "markCompleted" -> "Completed"
    [] rec[r].pc = "markFailed" -> "Failed"

PhaseToWrite(r) ==
  CASE rec[r].pc = "markRunning" -> "Running"
    [] rec[r].pc = "markCompleted" -> "Completed"
    [] rec[r].pc = "markFailed" -> "Failed"

Marking(r) == rec[r].pc \in {"markRunning", "markCompleted", "markFailed"}

MarkPhase(r) ==
  /\ Marking(r)
  /\ UpdatePhase("reconciler", r, PhaseToWrite(r))
  /\ rec' = [rec EXCEPT ![r] = Idle]
  /\ UNCHANGED <<lastUid, cached, queue, waiting, cachedJobs, cachedSource, jobs,
                 worker, applied, sources>>

\* Conflict, NotFound or an API error.
MarkPhaseFails(r) ==
  /\ Marking(r)
  /\ Requeue(r)
  /\ UNCHANGED <<objects, jobs, worker, applied, sources>>

ReconcilerStep(r) ==
  \/ RestoreReconcile(r) \/ ClusterRestoreReconcile(r) \/ RequeueAfter(r)
  \/ CreateJob(r) \/ CreateJobReplyLost(r) \/ CreateJobFails(r)
  \/ MarkPhase(r) \/ MarkPhaseFails(r)

=============================================================================
