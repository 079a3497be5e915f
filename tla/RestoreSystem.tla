---------------------------- MODULE RestoreSystem -----------------------------
(***************************************************************************)
(* The life of Restore and ClusterRestore objects: the controllers and the *)
(* workers, composed with users, the manager's caches and restarts, the    *)
(* Job controller and the kubelet, and the source backups, which do what   *)
(* BackupLedger allows.                                                    *)
(***************************************************************************)
EXTENDS RestoreReconciler, RestoreWorker

-----------------------------------------------------------------------------
(* Users.                                                                  *)

CreateRestore(r) ==
  /\ ~Exists(restore[r]) /\ lastUid < MaxUid
  /\ lastUid' = lastUid + 1
  /\ \E ref \in Refs :
       Put(r, [uid |-> lastUid + 1, generation |-> 1, ref |-> ref,
               deleting |-> FALSE, phase |-> ""])
  /\ UNCHANGED <<manager, jobs, worker, applied, sources>>

\* The sourceRef of a restore may be edited at any time.
EditRestore(r) ==
  /\ Exists(restore[r]) /\ restore[r].generation < MaxGeneration
  /\ \E ref \in Refs \ {restore[r].ref} :
       Put(r, [restore[r] EXCEPT !.generation = @ + 1, !.ref = ref])
  /\ UNCHANGED <<lastUid, manager, jobs, worker, applied, sources>>

MarkDeleting(r) ==
  /\ Finalizers /\ Exists(restore[r]) /\ ~restore[r].deleting
  /\ Put(r, [restore[r] EXCEPT !.deleting = TRUE])
  /\ UNCHANGED <<lastUid, manager, jobs, worker, applied, sources>>

DeleteRestore(r) ==
  /\ Exists(restore[r])
  /\ Put(r, Absent)
  /\ UNCHANGED <<lastUid, manager, jobs, worker, applied, sources>>

-----------------------------------------------------------------------------
(* The source backups.  Edits of their specs change nothing a restore sees.*)

SourceStep(n) ==
  /\ \/ lastSourceUid < MaxSourceUid /\ Ledger!Create(n)
     \/ n \notin Kept /\ Ledger!Delete(n)
     \/ \E a \in Artifacts : /\ a.location.name = n /\ a.uid = source[n].uid
                           /\ Ledger!Store(a)
     \/ \E a \in Artifacts : a.location.name = n /\ Ledger!Publish(n, a)
     \/ \E l \in PodLocations : l.name = n /\ Ledger!PublishUnshared(n, l)
  /\ everPublished' = everPublished \cup ({published'[n]} \ {NoLocation})
  /\ UNCHANGED <<objects, manager, jobs, worker, applied>>

-----------------------------------------------------------------------------
(* The manager: its informers, its workqueues and its restarts.            *)

SyncRestore(r) ==
  /\ "cache" \notin fresh[r]
  /\ cached' = [cached EXCEPT ![r] = restore[r]]
  /\ fresh' = [fresh EXCEPT ![r] = @ \cup {"cache"}]
  /\ queue' = queue \cup {r}
  /\ UNCHANGED <<lastUid, restore, waiting, rec, cachedJobs, cachedSource, jobs,
                 worker, applied, sources>>

\* The events of sources and of Jobs queue no restore.
SyncSource(n) ==
  /\ cachedSource[n] # SourceObject(n)
  /\ cachedSource' = [cachedSource EXCEPT ![n] = SourceObject(n)]
  /\ UNCHANGED <<objects, cached, queue, waiting, rec, cachedJobs, jobs, worker,
                 applied, sources>>

SyncJob(j) ==
  /\ cachedJobs[j] # jobs[j]
  /\ cachedJobs' = [cachedJobs EXCEPT ![j] = jobs[j]]
  /\ UNCHANGED <<objects, cached, queue, waiting, rec, cachedSource, jobs, worker,
                 applied, sources>>

Resync(r) ==
  /\ Exists(cached[r]) /\ r \notin queue
  /\ queue' = queue \cup {r}
  /\ UNCHANGED <<objects, cached, waiting, rec, cachedJobs, cachedSource, jobs,
                 worker, applied, sources>>

ManagerRestart ==
  /\ rec' = [r \in Restores |-> Idle]
  /\ cached' = restore
  /\ fresh' = [r \in Restores |-> (fresh[r] \cup {"cache"}) \ {"reconciler"}]
  /\ cachedJobs' = jobs
  /\ cachedSource' = [n \in Sources |-> SourceObject(n)]
  /\ queue' = {r \in Restores : Exists(restore[r])}
  /\ waiting' = {}
  /\ UNCHANGED <<lastUid, restore, jobs, worker, applied, sources>>

-----------------------------------------------------------------------------
(* The Job controller and the kubelet.                                     *)

PodKilled(j) ==
  /\ jobs[j].state \in {"Active", "Failed"} /\ ~Exited(j)
  /\ ExitWith(j, "exit1")
  /\ UNCHANGED <<objects, manager, jobs, applied, sources>>

SetJob(j, state) ==
  /\ jobs' = [jobs EXCEPT ![j].state = state]
  /\ UNCHANGED <<objects, manager, worker, applied, sources>>

\* activeDeadlineSeconds: the Job has failed, the pod is being terminated.
JobDeadline(j) == jobs[j].state = "Active" /\ SetJob(j, "Failed")

\* backoffLimit is 0: the exit code of the one pod decides.
JobFinished(j) ==
  /\ jobs[j].state = "Active" /\ Exited(j)
  /\ SetJob(j, IF worker[j].pc = "exit0" THEN "Succeeded" ELSE "Failed")

\* ttlSecondsAfterFinished.
JobExpired(j) ==
  jobs[j].state \in {"Succeeded", "Failed"} /\ Exited(j) /\ SetJob(j, "Deleted")

-----------------------------------------------------------------------------
Init ==
  /\ lastUid = 0
  /\ restore = [r \in Restores |-> Absent]
  /\ fresh = [r \in Restores |-> {"cache"}]
  /\ cached = restore
  /\ queue = {} /\ waiting = {}
  /\ rec = [r \in Restores |-> Idle]
  /\ jobs = [j \in JobIds |-> NoJob]
  /\ cachedJobs = jobs
  /\ worker = [j \in JobIds |-> NotStarted]
  /\ applied = {}
  /\ Ledger!Init /\ everPublished = {}
  /\ cachedSource = [n \in Sources |-> NoSource]

UserStep(r) ==
  CreateRestore(r) \/ EditRestore(r) \/ MarkDeleting(r) \/ DeleteRestore(r)

JobStep(j) ==
  \/ SyncJob(j) \/ WorkerStep(j)
  \/ PodKilled(j) \/ JobDeadline(j) \/ JobFinished(j) \/ JobExpired(j)

Next ==
  \/ \E r \in Restores : UserStep(r) \/ SyncRestore(r) \/ Resync(r) \/ ReconcilerStep(r)
  \/ \E n \in Sources : SourceStep(n) \/ SyncSource(n)
  \/ \E j \in JobIds : JobStep(j)
  \/ ManagerRestart

Spec == Init /\ [][Next]_vars

\* The manager's loops and timers keep running, and a call that is retried
\* for ever succeeds at last.  The resync is not needed, and nothing is
\* assumed of users, sources, workers or restarts.
Fairness ==
  /\ \A r \in Restores :
       /\ WF_vars(SyncRestore(r)) /\ WF_vars(RequeueAfter(r))
       /\ WF_vars(RestoreReconcile(r)) /\ WF_vars(ClusterRestoreReconcile(r))
       /\ WF_vars(CreateJobFails(r)) /\ WF_vars(MarkPhaseFails(r))
       /\ SF_vars(CreateJob(r)) /\ SF_vars(MarkPhase(r))
  /\ \A n \in Sources : WF_vars(SyncSource(n))
  /\ \A j \in JobIds : WF_vars(SyncJob(j))

FairSpec == Spec /\ Fairness

-----------------------------------------------------------------------------
(* Properties.                                                             *)

\* Every variable has its type; a phase is one of those the API declares.
TypeOK ==
  /\ lastUid \in 0..MaxUid
  /\ restore \in [Restores -> Objects \cup {Absent}]
  /\ fresh \in [Restores -> SUBSET Holders]
  /\ cached \in [Restores -> Objects \cup {Absent}]
  /\ queue \subseteq Restores /\ waiting \subseteq Restores
  /\ rec \in [Restores -> [pc : ReconcileStates, obj : Objects \cup {Absent}]]
  /\ jobs \in [JobIds -> JobRecords] /\ cachedJobs \in [JobIds -> JobRecords]
  /\ worker \in [JobIds -> [pc : WorkerStates, obj : Objects \cup {Absent},
                            location : Locations \cup {NoLocation}]]
  /\ applied \subseteq [job : JobIds, uid : Uids, ref : Refs, location : Locations]
  /\ stored \subseteq Artifacts /\ everPublished \subseteq Locations
  /\ cachedSource \in [Sources -> [uid : 0..MaxSourceUid,
                                   location : Locations \cup {NoLocation}]]

\* What is applied for a restore is an artifact that was put in S3 for the
\* backup its sourceRef named when the worker loaded it, however the sourceRef
\* is edited to name another backup, and the source run again, or deleted and
\* made again meanwhile (worker_restore.go:48-75).
AppliedFromSource ==
  \A x \in applied :
    /\ x.location.name = x.ref.source /\ Resolvable(x.ref)
    /\ \E a \in stored : a.location = x.location

\* No Job is made for a restore whose source has never published an artifact:
\* the controller waits for the location, also when its cache of the sources
\* is behind (restore_controller.go:47-50).
JobAwaitsArtifact ==
  \A r \in Restores :
    rec[r].pc = "create" =>
      \E l \in everPublished : l.name = rec[r].obj.ref.source

\* A restore is Completed only if an artifact was applied for this incarnation,
\* or a worker of one of its own Jobs ended with exit code 0: no crash, deadline,
\* refused report or stale Job list makes the controller say Completed.
CompletedIsJustified ==
  \A r \in Restores :
    restore[r].phase = "Completed" =>
      \/ \E x \in applied : x.uid = restore[r].uid
      \/ \E j \in JobIds : /\ jobs[j].restore = r /\ jobs[j].uid = restore[r].uid
                           /\ worker[j].pc = "exit0"

HasJob(r) ==
  \E j \in JobIds : /\ jobs[j].state # "None"
                    /\ jobs[j].restore = r /\ jobs[j].uid = restore[r].uid

\* A restore that is made before its backup is ready starts once the backup
\* has published, although no event of the backup reaches the controller: the
\* RequeueAfter polling finds it, across lost replies and restarts (unless
\* restore or source change or go away, or no Job name is left).
StartsOnceSourceReady ==
  \A r \in Restores, ref \in Refs :
    (restore[r].ref = ref /\ Resolvable(ref) /\ published[ref.source] # NoLocation)
      ~> \/ restore[r].phase # "" \/ HasJob(r)
         \/ restore[r].ref # ref \/ restore[r].deleting
         \/ published[ref.source] = NoLocation
         \/ \A j \in JobIds : jobs[j] # NoJob

=============================================================================
