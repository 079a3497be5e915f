---------------------------- MODULE BackupWorker -----------------------------
(***************************************************************************)
(* The worker process that runs in the pod of a backup Job: it loads the   *)
(* object by kind, namespace and name, exports resources and snapshots,    *)
(* stores the artifact, and reports by updating the status of the object.  *)
(* An error before the report is reported as phase Failed; the process     *)
(* then exits with code 0.  It exits with code 1 when the object cannot be *)
(* loaded or the report is refused.                                        *)
(***************************************************************************)
EXTENDS BackupObjects

WorkerStates == {"waiting", "loaded", "stored", "failing", "exit0", "exit1"}

WorkerRecords ==
  [pc : WorkerStates, obj : Objects \cup {Absent},
   location : Locations \cup {NoLocation}]

NotStarted == [pc |-> "waiting", obj |-> Absent, location |-> NoLocation]

Exited(j) == worker[j].pc \in {"exit0", "exit1"}

ExitWith(j, pc) == worker' = [worker EXCEPT ![j] = [NotStarted EXCEPT !.pc = pc]]

-----------------------------------------------------------------------------
WorkerLoad(j) ==
  /\ jobs[j].state = "Active" /\ worker[j].pc = "waiting"
  /\ LET b == jobs[j].backup IN
       IF Exists(backup[b])
         THEN /\ worker' = [worker EXCEPT ![j] =
                              [@ EXCEPT !.pc = "loaded", !.obj = backup[b]]]
              /\ fresh' = [fresh EXCEPT ![b] = @ \cup {j}]
         ELSE ExitWith(j, "exit1") /\ UNCHANGED fresh
  /\ UNCHANGED <<lastUid, backup, cached, queue, rec, jobs, cachedJobs, store>>

\* The paths the artifact of j may get, in whichever second it runs.
PathsOf(j) == {l \in Locations : l.backup = jobs[j].backup}

ArtifactAt(j, l) ==
  [location |-> l, uid |-> worker[j].obj.uid,
   generation |-> worker[j].obj.generation]

\* What others find of an artifact that j stored at l.
Shared(j, l) == IF l \in PodLocations THEN {} ELSE {ArtifactAt(j, l)}

\* Mutant: the artifact is not uploaded.
WorkerStoreSkipped(j) ==
  /\ worker[j].pc = "loaded"
  /\ \E l \in PathsOf(j) :
       worker' = [worker EXCEPT ![j].pc = "stored", ![j].location = l]
  /\ UNCHANGED <<lastUid, backup, fresh, cached, queue, rec, jobs, cachedJobs,
                 store>>

\* Storage resolution, the exports, the archive and the upload all succeed.
WorkerStore(j) ==
  /\ worker[j].pc = "loaded"
  /\ \E l \in PathsOf(j) :
       /\ store' = store \cup Shared(j, l)
       /\ worker' = [worker EXCEPT ![j].pc = "stored", ![j].location = l]
  /\ UNCHANGED <<lastUid, backup, fresh, cached, queue, rec, jobs, cachedJobs>>

\* One of them fails, the upload perhaps after it took effect.
WorkerFail(j) ==
  /\ worker[j].pc = "loaded"
  /\ \/ UNCHANGED store
     \/ \E l \in PathsOf(j) : store' = store \cup Shared(j, l)
  /\ worker' = [worker EXCEPT ![j].pc = "failing"]
  /\ UNCHANGED <<lastUid, backup, fresh, cached, queue, rec, jobs, cachedJobs>>

ReportedStatus(j) ==
  IF worker[j].pc = "stored"
    THEN WorkerCompletedStatus(worker[j].obj, worker[j].location)
    ELSE WorkerFailedStatus(worker[j].obj)

\* Mutant: the report is written over whatever the object is by then.
WorkerReportUnconditional(j) ==
  LET b == jobs[j].backup IN
    /\ worker[j].pc \in {"stored", "failing"} /\ Exists(backup[b])
    /\ Put(b, [backup[b] EXCEPT !.status = ReportedStatus(j)])
    /\ ExitWith(j, "exit0")
    /\ UNCHANGED <<lastUid, cached, queue, rec, jobs, cachedJobs, store>>

\* The reply to an accepted update may be lost, or the pod stopped before the
\* process exits: then the Job fails although the report was written.
WorkerReport(j) ==
  /\ worker[j].pc \in {"stored", "failing"}
  /\ UpdateStatus(j, jobs[j].backup, ReportedStatus(j))
  /\ \E pc \in {"exit0", "exit1"} : ExitWith(j, pc)
  /\ UNCHANGED <<lastUid, cached, queue, rec, jobs, cachedJobs, store>>

\* Conflict, NotFound or an API error (an expired context among them).
WorkerReportFails(j) ==
  /\ worker[j].pc \in {"stored", "failing"}
  /\ ExitWith(j, "exit1")
  /\ UNCHANGED <<lastUid, backup, fresh, cached, queue, rec, jobs, cachedJobs,
                 store>>

WorkerStep(j) ==
  \/ WorkerLoad(j) \/ WorkerStore(j) \/ WorkerFail(j)
  \/ WorkerReport(j) \/ WorkerReportFails(j)

=============================================================================
