---------------------------- MODULE RestoreWorker -----------------------------
(***************************************************************************)
(* The worker process that runs in the pod of a restore Job: it loads the  *)
(* restore by kind, namespace and name, reads the location of the source   *)
(* backup, loads and applies the artifact, and reports by updating the     *)
(* status.  An error before the report is reported as phase Failed; the    *)
(* process then exits with code 0.                                         *)
(***************************************************************************)
EXTENDS RestoreObjects

WorkerStates == {"waiting", "loaded", "located", "applied", "failing", "exit0",
                 "exit1"}

NotStarted == [pc |-> "waiting", obj |-> Absent, location |-> NoLocation]

Exited(j) == worker[j].pc \in {"exit0", "exit1"}

ExitWith(j, pc) == worker' = [worker EXCEPT ![j] = [NotStarted EXCEPT !.pc = pc]]

-----------------------------------------------------------------------------
WorkerLoad(j) ==
  /\ jobs[j].state = "Active" /\ worker[j].pc = "waiting"
  /\ LET r == jobs[j].restore IN
       IF Exists(restore[r])
         THEN /\ worker' = [worker EXCEPT ![j] =
                              [NotStarted EXCEPT !.pc = "loaded", !.obj = restore[r]]]
              /\ fresh' = [fresh EXCEPT ![r] = @ \cup {j}]
         ELSE ExitWith(j, "exit1") /\ UNCHANGED fresh
  /\ UNCHANGED <<lastUid, restore, manager, jobs, applied, sources>>

\* A Get of a Backup without a namespace finds nothing.
LoadBackupReference(ref) ==
  IF ref.source \in NamespacedSources => ref.namespace
    THEN SourceObject(ref.source)
    ELSE NoSource

\* Mutant: the restore is read again for its sourceRef.
WorkerLocateReloads(j) ==
  LET ref == restore[jobs[j].restore].ref IN
    /\ worker[j].pc = "loaded" /\ Exists(restore[jobs[j].restore])
    /\ LoadBackupReference(ref).location # NoLocation
    /\ worker' = [worker EXCEPT ![j].pc = "located",
                    ![j].location = LoadBackupReference(ref).location]
    /\ UNCHANGED <<objects, manager, jobs, applied, sources>>

WorkerLocate(j) ==
  /\ worker[j].pc = "loaded"
  /\ LoadBackupReference(worker[j].obj.ref).location # NoLocation
  /\ worker' = [worker EXCEPT ![j].pc = "located",
                  ![j].location = LoadBackupReference(worker[j].obj.ref).location]
  /\ UNCHANGED <<objects, manager, jobs, applied, sources>>

\* The artifact is loaded, unpacked, decoded and applied to the target cluster.
\* There is one only if somebody put it where this pod can read it.
WorkerApply(j) ==
  /\ worker[j].pc = "located"
  /\ \E a \in stored : a.location = worker[j].location
  /\ applied' = applied \cup {[job |-> j, uid |-> worker[j].obj.uid,
                               ref |-> worker[j].obj.ref,
                               location |-> worker[j].location]}
  /\ worker' = [worker EXCEPT ![j].pc = "applied"]
  /\ UNCHANGED <<objects, manager, jobs, sources>>

\* The source is gone or has no location; its storage location does not
\* resolve; one of the steps of WorkerApply fails, perhaps half way through.
WorkerFail(j) ==
  /\ worker[j].pc \in {"loaded", "located"}
  /\ worker' = [worker EXCEPT ![j].pc = "failing"]
  /\ UNCHANGED <<objects, manager, jobs, applied, sources>>

ReportedPhase(j) == IF worker[j].pc = "applied" THEN "Completed" ELSE "Failed"

\* The reply may be lost, or the pod stopped before the process exits.
WorkerReport(j) ==
  /\ worker[j].pc \in {"applied", "failing"}
  /\ UpdatePhase(j, jobs[j].restore, ReportedPhase(j))
  /\ \E pc \in {"exit0", "exit1"} : ExitWith(j, pc)
  /\ UNCHANGED <<lastUid, manager, jobs, applied, sources>>

\* Conflict, NotFound or an API error (an expired context among them).
WorkerReportFails(j) ==
  /\ worker[j].pc \in {"applied", "failing"}
  /\ ExitWith(j, "exit1")
  /\ UNCHANGED <<objects, manager, jobs, applied, sources>>

WorkerStep(j) ==
  \/ WorkerLoad(j) \/ WorkerLocate(j) \/ WorkerApply(j) \/ WorkerFail(j)
  \/ WorkerReport(j) \/ WorkerReportFails(j)

=============================================================================
