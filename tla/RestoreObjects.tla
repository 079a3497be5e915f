---------------------------- MODULE RestoreObjects ----------------------------
(***************************************************************************)
(* The state shared by the operator's processes during the life of Restore *)
(* and ClusterRestore objects, and the API-server operations they use.     *)
(* The conventions are those of BackupObjects: fresh[r] holds those whose  *)
(* copy of r carries the current resourceVersion, and each incarnation of  *)
(* a name has its own uid.                                                 *)
(*                                                                         *)
(* Of the source backups only what their status promises is visible here,  *)
(* which is what BackupLedger specifies and BackupSystem implements.       *)
(* Locations and artifacts are those of BackupObjects: a source that is    *)
(* run again publishes another location, and what is on NFS is in the pod  *)
(* that stored it.  everPublished only remembers, for a property.          *)
(***************************************************************************)
EXTENDS Naturals, FiniteSets

CONSTANTS
  Restores,           \* names of restore objects
  Namespaced,         \* those of kind Restore; the others are ClusterRestores
  Sources,            \* names of backup objects
  NamespacedSources,  \* those of kind Backup; the others are ClusterBackups
  JobIds,             \* names the API server may generate for Jobs
  NoLocation,         \* the empty artifactLocation
  NoRestore,          \* the owner of a Job that does not exist
  MaxUid,             \* bound: restore incarnations created in a behaviour
  MaxGeneration,      \* bound: generation of a restore's spec
  MaxSourceUid,       \* bound: source incarnations created in a behaviour
  Kept,               \* sources that are not deleted in a behaviour
  StorageTypes,       \* types the storage location may have
  Seconds,            \* timestamps of runs of the sources
  Finalizers          \* TRUE: restores may have finalizers a delete waits for

ASSUME NamesAssumption ==
  /\ Namespaced \subseteq Restores /\ NoRestore \notin Restores
  /\ NamespacedSources \subseteq Sources /\ Kept \subseteq Sources
  /\ {"cache", "reconciler"} \cap JobIds = {}

ASSUME BoundsAssumption ==
  /\ MaxUid \in Nat /\ MaxSourceUid \in Nat /\ MaxGeneration \in Nat \ {0}
  /\ StorageTypes \subseteq {"s3", "nfs"} /\ Finalizers \in BOOLEAN

VARIABLES
  lastUid,          \* the last uid given to a restore
  restore,          \* the API server's Restore and ClusterRestore objects
  fresh,            \* holders of a copy with the current resourceVersion
  cached,           \* the manager's informer cache of the restores
  queue,            \* the controllers' workqueues
  waiting,          \* restores with a RequeueAfter pending
  rec,              \* one reconcile per restore: where it is and what it read
  jobs,             \* the API server's Jobs in the operator namespace
  cachedJobs,       \* the manager's informer cache of the Jobs
  worker,           \* the worker process in a Job's pod
  applied,          \* what has been applied to the target clusters
  lastSourceUid,    \* the last uid given to a source
  source,           \* incarnations of the sources
  published,        \* artifactLocation of the sources
  stored,           \* artifacts that were put in S3
  everPublished,    \* every location a source has shown
  cachedSource      \* the manager's informer cache of the sources

sources == <<lastSourceUid, source, published, stored, everPublished>>
objects == <<lastUid, restore, fresh>>
manager == <<cached, queue, waiting, rec, cachedJobs, cachedSource>>
vars == <<objects, manager, jobs, worker, applied, sources>>

-----------------------------------------------------------------------------
Phases == {"", "Running", "Completed", "Failed"}

\* spec.sourceRef: a name, and whether sourceRef.namespace is set (that of a
\* ClusterBackup is not looked at).
Refs ==
  {ref \in [source : Sources, namespace : BOOLEAN] :
     ref.namespace => ref.source \in NamespacedSources}

Uids == 1..MaxUid

Generations == 1..MaxGeneration

Objects ==
  [uid : Uids, generation : Generations, ref : Refs, deleting : BOOLEAN,
   phase : Phases]

NoRef == [source |-> "", namespace |-> FALSE]
Absent ==
  [uid |-> 0, generation |-> 0, ref |-> NoRef, deleting |-> FALSE, phase |-> ""]

Exists(o) == o.uid # 0

JobStates == {"None", "Active", "Succeeded", "Failed", "Deleted"}

NoJob == [state |-> "None", restore |-> NoRestore, uid |-> 0]

JobRecords ==
  [state : JobStates \ {"None"}, restore : Restores, uid : Uids] \cup {NoJob}

Locations == [type : StorageTypes, name : Sources, time : Seconds]

ASSUME NoLocationAssumption == NoLocation \notin Locations

PodLocations == {l \in Locations : l.type = "nfs"}

\* The generation of a source's spec is not looked at by a restore.
Artifacts == [location : Locations, uid : 1..MaxSourceUid, generation : {1}]

\* An incarnation of a source, as far as a Get shows it.
NoSource == [uid |-> 0, location |-> NoLocation]
SourceObject(n) == [uid |-> source[n].uid, location |-> published[n]]

Holders == {"cache", "reconciler"} \cup JobIds

-----------------------------------------------------------------------------
Ledger ==
  INSTANCE BackupLedger WITH
    Names <- Sources, Unshared <- PodLocations, Nowhere <- NoLocation,
    last <- lastSourceUid, current <- source, published <- published,
    stored <- stored

-----------------------------------------------------------------------------
(* API-server operations on restores.                                      *)

Put(r, o) ==
  /\ restore' = [restore EXCEPT ![r] = o]
  /\ fresh' = [fresh EXCEPT ![r] = {}]

UpdateAccepted(h, r) == Exists(restore[r]) /\ h \in fresh[r]

\* The status that is compared has timestamps of one second: an update that
\* says the same again may or may not produce a new resourceVersion.
UpdatePhase(h, r, phase) ==
  /\ UpdateAccepted(h, r)
  /\ \/ Put(r, [restore[r] EXCEPT !.phase = phase])
     \/ phase = restore[r].phase /\ UNCHANGED <<restore, fresh>>

=============================================================================
