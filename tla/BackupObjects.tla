---------------------------- MODULE BackupObjects ----------------------------
(***************************************************************************)
(* The state shared by the operator's processes during the life of Backup  *)
(* and ClusterBackup objects, and the API-server operations they use.      *)
(*                                                                         *)
(* An object name in Backups stands for one namespace/name of a Backup (if *)
(* it is in Namespaced) or for one name of a ClusterBackup (otherwise).    *)
(* The same name may be created, deleted and created again: each           *)
(* incarnation has its own uid.                                            *)
(*                                                                         *)
(* resourceVersion is modelled by what it is used for.  fresh[b] is the    *)
(* set of holders whose in-memory copy of b carries the resourceVersion    *)
(* the API server has now; every write to b empties it, so a status update *)
(* made from any other copy is answered with Conflict.                     *)
(*                                                                         *)
(* A location is the path of an artifact: the type of the storage, the     *)
(* object's name and a timestamp of one second, so two runs for one object *)
(* may share it.  An artifact remembers the incarnation and the generation *)
(* of the spec it was made from.  store has every artifact that was put in *)
(* S3; which of several under one path is left there is not told.  What a  *)
(* worker stores on NFS stays in its pod.  Messages, conditions and        *)
(* timestamps of a status are left out.                                    *)
(***************************************************************************)
EXTENDS Naturals, FiniteSets

CONSTANTS
  Backups,        \* names of backup objects
  Namespaced,     \* those of kind Backup; the others are ClusterBackups
  JobIds,         \* names the API server may generate for Jobs
  NoLocation,     \* the empty artifactLocation
  NoBackup,       \* the owner of a Job that does not exist
  MaxUid,         \* bound: object incarnations created in a behaviour
  MaxGeneration,  \* bound: generation of an object's spec
  StorageTypes,   \* types the storage location may have
  Seconds,        \* timestamps of worker runs
  Finalizers      \* TRUE: objects may have finalizers a delete waits for

ASSUME NamesAssumption ==
  /\ Namespaced \subseteq Backups
  /\ NoBackup \notin Backups
  /\ {"cache", "reconciler"} \cap JobIds = {}

ASSUME BoundsAssumption ==
  /\ MaxUid \in Nat
  /\ MaxGeneration \in Nat \ {0}
  /\ StorageTypes \subseteq {"s3", "nfs"} /\ Finalizers \in BOOLEAN

VARIABLES
  lastUid,        \* the last uid the API server gave to a new object
  backup,         \* the API server's Backup and ClusterBackup objects
  fresh,          \* holders of a copy with the current resourceVersion
  cached,         \* the manager's informer cache of the objects
  queue,          \* the controllers' workqueues
  rec,            \* one reconcile per object: where it is and what it read
  jobs,           \* the API server's Jobs in the operator namespace
  cachedJobs,     \* the manager's informer cache of the Jobs
  worker,         \* the worker process in a Job's pod
  store           \* artifacts that were put in S3

vars == <<lastUid, backup, fresh, cached, queue, rec, jobs, cachedJobs,
          worker, store>>

-----------------------------------------------------------------------------
Phases == {"", "Running", "Completed", "Failed"}

Uids == 1..MaxUid
Generations == 1..MaxGeneration

Locations == [type : StorageTypes, backup : Backups, time : Seconds]

ASSUME NoLocationAssumption == NoLocation \notin Locations

\* Paths on NFS are read in the pod that wrote them and nowhere else.
PodLocations == {l \in Locations : l.type = "nfs"}

Artifacts == [location : Locations, uid : Uids, generation : Generations]

Statuses ==
  [phase : Phases,
   artifactLocation : Locations \cup {NoLocation},
   observedGeneration : 0..MaxGeneration]

NewStatus ==
  [phase |-> "", artifactLocation |-> NoLocation, observedGeneration |-> 0]

Objects ==
  [uid : Uids, generation : Generations, deleting : BOOLEAN, status : Statuses]

Absent ==
  [uid |-> 0, generation |-> 0, deleting |-> FALSE, status |-> NewStatus]

Exists(o) == o.uid # 0

JobStates == {"None", "Active", "Succeeded", "Failed", "Deleted"}

NoJob == [state |-> "None", backup |-> NoBackup, uid |-> 0]

JobRecords ==
  [state : JobStates \ {"None"}, backup : Backups, uid : Uids] \cup {NoJob}

Holders == {"cache", "reconciler"} \cup JobIds

-----------------------------------------------------------------------------
(* The status values the controller and the worker write.                  *)

\* Mutant: a phase the API does not declare.
RunningStatusUndeclared(o) ==
  [o.status EXCEPT !.phase = "Started", !.observedGeneration = o.generation]

RunningStatus(o) ==
  [o.status EXCEPT !.phase = "Running", !.observedGeneration = o.generation]

CompletedStatus(o) ==
  [o.status EXCEPT !.phase = "Completed", !.observedGeneration = o.generation]

FailedStatus(o) ==
  [o.status EXCEPT !.phase = "Failed", !.observedGeneration = o.generation]

\* The worker keeps the observedGeneration it loaded.
WorkerCompletedStatus(o, location) ==
  [o.status EXCEPT !.phase = "Completed", !.artifactLocation = location]

WorkerFailedStatus(o) == [o.status EXCEPT !.phase = "Failed"]

-----------------------------------------------------------------------------
(* API-server operations.                                                  *)

\* Any write to an object gives it a new resourceVersion.
Put(b, o) ==
  /\ backup' = [backup EXCEPT ![b] = o]
  /\ fresh' = [fresh EXCEPT ![b] = {}]

\* Status().Update is refused with NotFound when the object is gone and with
\* Conflict when the copy it was made from is not the current one.
UpdateAccepted(h, b) == Exists(backup[b]) /\ h \in fresh[b]

\* An update that changes nothing (completedAt has a resolution of one
\* second) need not produce a new resourceVersion.
UpdateStatus(h, b, s) ==
  /\ UpdateAccepted(h, b)
  /\ \/ Put(b, [backup[b] EXCEPT !.status = s])
     \/ s = backup[b].status /\ UNCHANGED <<backup, fresh>>

=============================================================================
