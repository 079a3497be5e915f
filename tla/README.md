# TLA+ models of the backup operator

These modules model the operator of this repository: the controllers and worker
processes that back up Kubernetes objects to an artifact in S3 or NFS and restore
them to a cluster. TLC checks them on small instances; TLAPS proves their safety
properties for every size.

- [The system](#the-system)
- [Modules and the code they model](#modules-and-the-code-they-model)
- [Abstractions](#abstractions)
- [Runs](#runs)
- [Fairness](#fairness)
- [Findings](#findings)
- [Proofs](#proofs)
- [What is not modelled](#what-is-not-modelled)
- [Plan](#plan)

`PROJECT.json` lists components, runs, mutants, the lines each definition models,
findings, hazards and theorems.

## The system

| part | state it keeps | operations | talks to |
|---|---|---|---|
| API server (external) | objects with uid, generation, resourceVersion, deletionTimestamp; Jobs | create, edit, delete; `Status().Update` with optimistic concurrency | everybody |
| `Backup`/`ClusterBackup` controllers (`controllers/backup_controller.go`, `clusterbackup_controller.go`, `job_builder.go`) | none but what one `Reconcile` call has read; the informer caches and a workqueue belong to controller-runtime | `Reconcile`, `findJob`, `buildBackupJob`, `failBackup` | reads caches, creates Jobs, writes status |
| `Restore`/`ClusterRestore` controllers (`restore_controller.go`, `clusterrestore_controller.go`) | as above, and timers of `RequeueAfter` | as above, `getBackupForRestore`, `failRestore` | also reads the source backup |
| Backup worker (`cmd/worker_backup.go`) | the object as it loaded it; a temporary directory | load, resolve storage, export, snapshot, pack, store, report | API server, storage |
| Restore worker (`cmd/worker_restore.go`) | the object as it loaded it | load, find the source, load the artifact, apply each document, report | API server, storage, target cluster |
| Artifact storage (`cmd/worker_storage.go`) | files and S3 objects | `storeArtifact`, `loadArtifact` | workers of all clusters that share it |
| Storage locations (`internal/resolve/storage.go`, `backupstoragelocation_controller.go`) | `BackupStorageLocation` objects | choose one by name or default; validate | controllers and workers, separately |
| Remote clusters (`remotecluster_controller.go`, `buildRemoteConfigForRestore`) | `RemoteCluster` objects and secrets | validate, build a client configuration | restore worker |
| Process set-up (`cmd/main.go`, `cmd/worker.go`) | none | manager or worker mode; a worker's context ends after two hours; the exit code | Job controller |

A user creates a `Backup`. Its controller finds no Job with the object's uid in the
owner labels and creates one, then writes `Running`. The Job's pod runs the same
image as a worker, which loads the object by name, stores the artifact and writes
`Completed` with the location, or `Failed`; in both cases it exits with code 0. On
any later reconcile the controller compares the Job's counters with the phase and
corrects the phase. A `Restore` names a backup; its controller polls every ten
seconds until the backup has a location and then proceeds in the same way. No
controller watches Jobs, and none looks at the phase before it creates one.

What is hard, and what makes each part correct:

- **Stale reads.** A Reconcile call works on cached copies of the object, the Jobs
  and, for restores, the source. The Job list may lack the
  Job the last call created, so one object can have two Jobs at a time. Correct: of Jobs
  that run together one publishes at most, no status of one incarnation on another, no
  update from a copy that is outdated.
- **Lost steps.** `Create` may take effect and its reply be lost; the manager may
  restart between `Create` and the status update; a pod may be killed at any time; a
  deadline fails a Job whose process still runs. Correct: the retry finds the Job,
  and `Completed` is only said with a reason.
- **Two writers of one status.** Controller and worker write the same status from
  copies of different age. Correct: a published location names an artifact in
  storage made from this incarnation, is never taken back, and is replaced only by a run
  that began when it was there.
- **Shared storage.** Clusters share a bucket or an export and the location's spec is
  edited between backup and restore. Correct: nobody overwrites or loads an artifact
  of somebody else, and a URL leads back to its artifact.
- **A target that others write to.** A restore is a sequence of API calls without a
  transaction. Correct: the order serves prerequisites first, a namespace is made
  before what lives in it, objects go to the mapped namespaces only, and a restore
  that ends without an error has restored what it was to restore.
- **Progress without events.** The end of a Job and the publication of a source
  cause no event of the object that waits for them; only polling and the resync find
  them. Nor do secrets and the reachability of a remote cluster, which the status of a
  `RemoteCluster` is about.
- **Many calls, one artifact.** An export is a List per kind and namespace, in a cluster
  that changes; errors of most calls are passed over, and the context ends after two
  hours. Correct: the artifact has what the filters take, what is missing is what
  the failed calls would have found, and an export that the two hours cut short is never
  Completed.
- **Names that are cut off.** Snapshots get names of at most 63 characters, and a name
  that is taken means "use that one". Correct: the snapshot used is one of this run.
- **Choices made twice.** Controller and worker resolve the storage location
  separately; controller and restore worker build the configuration of a remote cluster
  separately. Correct: the same from the same candidates, and the same configuration.

`PROJECT.json` lists these hazards one by one at the lines where they bite, with
the properties that would catch them.

## Modules and the code they model

### Backups

| module | models |
|---|---|
| `BackupObjects` | shared state and API-server operations: objects, resourceVersion, status updates |
| `BackupReconciler` | the two controllers: `Reconcile` reads and decides (`ReconcileNothing`/`ReconcileDecides` behind `BackupReconcile` and `ClusterBackupReconcile`), `CreateJob*` is `r.Create`, `MarkStatus*` is `Status().Update` |
| `BackupWorker` | `runBackupWorker`: `WorkerLoad`, `WorkerStore` or `WorkerFail`, `WorkerReport` or `WorkerReportFails` |
| `BackupSystem` | composes them with users, informers, restarts of the manager, the Job controller and the kubelet; the properties |
| `BackupLedger` | the abstract specification: what the status of a backup promises to whoever restores from it |
| `BackupSystemProofs` | theorems about the composed system and its refinement |
| `BackupJobsProofs` | theorems about Jobs and phases, on top of those |
| `MCBackup` | symmetry for TLC |

Each API call is a step of its own, so that everybody else can act between two calls of
one Reconcile or one worker. `rec[b]` holds the place a Reconcile call has reached
and the copy it works on; `worker[j]` does the same for the process in the pod of
Job j. controller-runtime runs at most one Reconcile per object, hence one `rec` per
object.

`BackupLedger` knows no Jobs, caches, retries or restarts. It says that a location is
published only when the artifact is in storage and only for the incarnation and the
generation of the spec it was made from, or when it is one that only its own pod can read
(`PublishUnshared`: NFS, see store_nfs), and is not emptied while the incarnation lives.
`BackupSystem` implements it: the mapping takes `current` from uid and generation of
`backup` and `published` from the status. It is also what the restores build on.

### Restores

| module | models |
|---|---|
| `RestoreObjects` | shared state, as in `BackupObjects`; the sources are an instance of `BackupLedger`; `everPublished` remembers what they have shown, for `JobAwaitsArtifact` |
| `RestoreReconciler` | the two controllers; `ReconcileWait` and `RequeueAfter` are the polling |
| `RestoreWorker` | `runRestoreWorker` around the apply step, which is atomic here: `applied` records restore, sourceRef and location |
| `RestoreSystem` | composes them with users, sources, informers, restarts and the Job controller; the properties |
| `ResourceApply` | the apply step in detail: `applyResources`, one API call at a time, with several workers and others who write to the target |
| `RestoreSystemProofs`, `ResourceApplyProofs` | theorems |
| `MCRestore`, `MCResourceApply` | instances for TLC: archives, mappings, workers |

`RestoreSystem` uses the sources through the abstract specification: whatever
`BackupSystem` does to a source is a step of `BackupLedger`, by `LedgerRefinement`, so
the restores are checked against all of it without its state.

`ResourceApply` starts from every state the target may be in: any of the objects may
already be there. The actions follow the loop of `applyResources`: `GetNamespace` and
`CreateNamespace` are `ensureNamespace`, `MapKind` is `mapper.RESTMapping` with its
cache of the first discovery, `Create`, `Get` and `Update` are the three calls, and
`Fail` is any error return, that of a refused content among them. `DiscoveryFails` is the
error that is passed over.

### Storage

| module | models |
|---|---|
| `ArtifactStore` | `storeArtifact`, `loadArtifact` and the helpers for S3 and NFS, the NFS mount of the pods, edits of the location, pods of several clusters |
| `ArtifactStoreProofs` | theorems |
| `MCArtifactStore` | specs and owners for TLC, symmetry |

A path is a sequence of segments and a URL is [scheme, authority, path], so the
conversions between URL, key and file keep what the code keeps: the URL has the bucket
but not the endpoint, and the exported path is cut off with the spec of the time of
the restore. `ContainerMounts` is empty because the container is copied into the pod
template before the mount is added to it (`job_builder.go:111` and `:129`).

### Backup contents

| module | models |
|---|---|
| `ResourceKinds` | `shouldSkipKind`, `resourcePriority` and the stable sort by it, shared with the restore |
| `ExportScope` | the filters of `exportResources` and `exportSnapshots` as operators: identifiers, namespaces, calls, annotations, names of snapshots; and the scope as the API's fields describe it, object by object |
| `BackupExport` | the export as a process: one action per API call of `exportResources` and `exportSnapshots`, then `Pack`, `StoreArtifact`, `Report`; others who change the cluster, other workers, the end of the context |
| `ResourceKindsProofs` | lemmas about sequences, selections and sorting, for the export and the restore |
| `BackupExportProofs` | theorems |
| `MCBackupExport` | a cluster with two applications, six backups |

`ExportScope` has two descriptions of the same thing. `CallsFor` and `Kept` follow the
loops of the code: identifiers against an include set and an exclude set, kinds that are
skipped, verbs, cluster-scoped or not. `InScope` is the reference, for one object at a
time: the fields of `BackupSpec` as the worker takes them. `ExportedInScope` and
`ExportComplete` compare them through a whole run of the process. In two points the
worker takes less, or more, than the comments of the fields say; both are under
[Findings](#findings), and MCBackupExport has an instance of each. `BackupExport` is the detail of the step `WorkerStore` or
`WorkerFail` of `BackupWorker`, as `ResourceApply` is of the restore worker's apply step.

### Configuration

| module | models |
|---|---|
| `ConfigObjects` | the objects of both kinds, their informer cache, the workqueue, one `Reconcile` call per controller, `Status().Update` with its conflicts, failures and retries, restarts |
| `StorageLocations` | the `BackupStorageLocation` controller; `resolve.StorageLocation` in `ControllerResolves` (from the cache, in any order) and `WorkerResolves` (from the API server) |
| `RemoteClusters` | the `RemoteCluster` controller: `ReadSecret` (from the cache), `Probe` or `ProbeFails`, the update; the restore worker's `GetRemote` and `GetRemoteSecret`; secrets and the network |
| `Configuration` | composes them with users, informers, the resync and restarts of the manager; fairness |
| `MCConfiguration` | two locations and a backup, or a remote cluster and a restore |

The two controllers differ in what an update that fails means, which is `ErrorReturned`:
the location controller returns the error and is tried again, the one of remote clusters
drops it on every path but the last.

## Abstractions

- *resourceVersion*: `fresh[b]` is the set of holders whose copy is current. Every
  write empties it; an update from a holder outside it is a Conflict.
- *Status*: phase, location and observedGeneration (backups), phase (restores).
  Messages, conditions and times are left out. The phase `Pending` is declared and
  never written.
- *Locations*, in the modules of backups and restores, are [type, object, time]: the type
  of the storage, one of `StorageTypes`, whose spec may be edited between two runs; the
  object's name, for the path built from it; and a second, one of `Seconds`. Two runs for
  one object may share a location. An artifact is a location with the incarnation and the
  generation it was made from. `store` keeps every artifact that was put in S3: of several
  under one path it does not tell which is left. What is stored on NFS stays in the pod
  (`PodLocations`), so nobody else ever finds it. Paths and what overwrites what are
  `ArtifactStore`, in which an artifact's content does not tell two runs of one object in
  one second apart.
- *A Job* is its state and its owner; `backoffLimit` is 0, so it has one pod. The
  deadline may strike any time; a Job that has ended may expire any time.
- *The Job cache* may be behind in every run: `findJob` reads the informer of the manager,
  and `SyncJob` brings it up to date, one Job at a time.
- *Exports* (backup) and the steps before the apply (restore) succeed or fail as a
  whole in the worker modules; a failed apply may have applied a part, which
  `ResourceApply` shows and `RestoreSystem` leaves out of `applied`.
- *Edits of a restore* change its sourceRef; its generation is a bound on them
  (`MaxGeneration`) and not used by anything. `Kept` are sources that a run does not delete.
- *A document* is [kind, namespace, name] and an object of the target remembers the
  document it was last written from. Deleting a namespace or a definition deletes
  what depends on it in one step.
- *Names and entries of an export*: a name is a sequence of parts, each as long as one
  unit of `MaxNameLength`, and the dash is a part. An entry of `includedResources` and the
  like is the sequence of words it has after lower-casing and trimming. Included
  namespaces are a set without the empty name; the code exports a namespace that is
  named twice, twice, and would list the empty one as all namespaces
  (`worker_backup.go:415-451`).
- *Content of an exported object*: its kind, namespace, name, labels and annotations.
  `sanitizeObject`, the format and the snapshot class are left out, and VolumeSnapshots
  are kept apart from the other objects and are not exported as resources. Selectors are
  sets of labels; a `pvcSelector` that is given but empty selects every claim, and unlike
  one that is not given it also turns snapshots on.
- *Discovery* gives the same resource types every time, without the groups that fail.
- *BackupStorageLocation status* has an observedGeneration here, as the controller writes
  it and as `BackupStorageLocationStatus` would have it once the package compiles (see
  [Findings](#findings)).
- *Statuses of locations and remote clusters* are phase and observedGeneration, where the
  phase of a `RemoteCluster` stands for its message. Every reconcile of a location writes
  `LastValidated`, to the second; whether a status that is otherwise the same is a
  write, with an event, or none is left open.
- *Remote clusters* share one secret. A kubeconfig is the configuration it stands for,
  and what a cluster answers is the set of configurations it accepts.
- *A location's spec* tells which of the parts s3 and nfs are given. Its secret is not
  part of the model: `WorkerResolves` may fail whatever the spec, as a missing secret or
  a failed transfer makes it.
- *NFS paths*: no exported path of `Specs` is a string prefix of another that is not a
  prefix by segments.

## Runs

Bounds are constants of the modules (`MaxUid`, `MaxGeneration`, `MaxSourceUid`,
`Timestamps`; `MaxChanges`, `MaxFailures`, `MaxNameLength` and `Stamps` of the export;
`MaxEdits` and `MaxFailures` of the configuration) or the sizes of the sets in the .cfg.

| run | cfg | checks | what the instance is for |
|---|---|---|---|
| backup_duplicates | BackupDuplicates | `TypeOK`, `CompletedIsJustified`, `PublicationNotOverwritten` | one Backup, two Jobs at a time, S3 and NFS, one second |
| backup_incarnations | BackupIncarnations | `RunningHasJob`, `PublishedArtifactSound`, `ObservedGenerationMonotone`, `LedgerImplemented` | a name made twice, edits, finalizers, S3 and NFS, two seconds; the refinement |
| backup_progress | BackupProgress | `PickedUp`, `FinishedJobReported` | one ClusterBackup made twice, finalizers, fairness |
| store_artifacts | StoreArtifacts | `LoadedIsOwn`, `S3ReadsBack`, `ArtifactsKept` | two clusters (one edits bucket and prefix, one changes to NFS), two owners of one name, three pods, two seconds |
| export_contents | ExportContents | `TypeOK`, `ExportedInScope`, `ExportComplete`, `CompletedInTime`, `SnapshotsRecent`, `SnapshotsComplete` | backups with different filters, one change by others, one failing call, the end of the context, two workers in two seconds |
| configuration | Configuration | `TypeOK`, `AvailableIsComplete`, `RestoreTargetAnswered`, `PodMatchesLocation`, `LocationStatusSettles`, `RemoteStatusSettles` | two locations or one remote cluster, two edits, one failing call or restart, fairness |
| restore_sources | RestoreSources | `TypeOK`, `AppliedFromSource`, `JobAwaitsArtifact`, `CompletedIsJustified` | one Restore, a sourceRef that is edited from one ClusterBackup to another, two source incarnations, S3 |
| restore_progress | RestoreProgress | `StartsOnceSourceReady`, `JobAwaitsArtifact` | one ClusterRestore of a Backup, on NFS, that may be deleted; finalizers; liveness of the polling |
| apply_archive | ApplyArchive | `TypeOK`, `StaysInScope`, `DoneMeansRestored`, `PrerequisitesFirst`, `UndisturbedSucceeds` | two workers on one archive, two documents that meet in one target, every initial state of the target, calm or disturbed |

What they show: an artifact that a status names as in S3 was put there, was made from that
incarnation, and stays named; no stale copy, duplicate Job, restart or lost reply
breaks that. Of two Jobs that run for one object at once, which a Job list that is behind
makes possible, one publishes and the report of the other is refused. `Running` and
`Completed` are never said without a Job of this
incarnation, or a worker that ended well, behind them. A new object is picked up and a
finished Job reported. Artifacts of different clusters, objects and seconds never
meet. A backup contains what the worker takes to be in its scope, and all of it that
was there throughout but for what a
failed call would have found; none is Completed whose export ran out of its two hours. A
location that says Available has in its spec what controller and worker ask of it, a
remote cluster that says reachable has
answered the very configuration a restore will use, controller and worker choose the
same location while the locations they choose among are the same and one at most is the
default, and both statuses settle on the truth. A restore applies what the source it named
published and starts when there is something to apply. The apply step keeps to the mapped
namespaces under any disturbance; when nothing disturbs it, it is ordered and successful
and brings every document of a built-in kind to its target, where the last of those that
meet remains.

Why these bounds are enough. Objects of different names share nothing but the
Job names, and owner labels keep those apart, so one name shows every interaction
except the collision of names, which `ArtifactStore` covers with two owners. Two
incarnations are needed for a Job or a worker of an old uid to meet a new object; a
third meets nothing new. Two Jobs are needed for a duplicate; a third is another
duplicate of the same two. Two generations are needed for an edit between load and
report. Two sources are needed for a sourceRef that is edited to name another backup
while a worker runs; they are of one kind and interchangeable (`Symmetry`). Their two
incarnations are one for each; a source that is deleted is in restore_progress, with the
cache that still has it. A source that is made again under its name, a restore that is,
and a source that publishes in a second second are left to the theorems of
`RestoreSystemProofs`, which have no bounds; the same steps of backups are in
backup_incarnations and backup_duplicates. Two clusters, two owners and three pods
let one pod store, one store elsewhere and one load. For the apply step two workers give
every race of two calls,
and the archives hold what differs: a namespace that is in the archive and one that is
not, a kind that is skipped, two objects that meet under one name, a definition and
its resource. The backups of the export differ in every filter; a change of the cluster, a
failing call and the end of the context can each fall between any two calls, and a second
change or failure would only add another object or call to those already lost. Two
workers and two seconds are what a name needs that is taken in the same or in an earlier
second; the names of the three claims fit, lose the timestamp, and end with a dash. For
the configuration two edits make every pair of an edit and a deletion, a re-creation, or
a change of the secret or the network around one validation of a location; a remote
cluster needs one of them to answer at all, so its re-creation after a probe is left to
`RestoreTargetWasAnswered`. Two locations are needed
for a default among several and for a second default. Locations and remote clusters
share only the process of the manager, so they are separate scenarios of one run. Deadlock
is not checked in the storage, export,
configuration and apply runs, whose pods, workers and edits come to an end.

For every property of a passing run `PROJECT.json` names a mutant: a definition of the
model changed the way a plausible bug would change the code. TLC finds the property
violated with it. The mutated operators are in the modules, marked *Mutant*, next to
what they change.

## Fairness

Safety runs use no fairness. `FairSpec` of `BackupSystem` and `RestoreSystem` assumes:

- WF of the informers, the workqueue (the Reconcile actions), the `RequeueAfter` timer:
  goroutines of the manager that run as long as it does. WF of the failing outcome of
  a call means only that a call returns.
- SF of `CreateJob` and `MarkStatus`/`MarkPhase`: controller-runtime retries a Reconcile
  that returned an error for ever, and a call that is tried for ever succeeds at last.
- WF of the resync in `BackupSystem` (every ten hours by default): without it nothing
  finds the end of a Job. `RestoreSystem` does not assume it; its polling suffices.
- WF of `JobFinished`: the Job controller notices the exit of a pod.

`Configuration` assumes, of one manager with one worker per controller:

- WF of the informers of objects (`SyncObject`) and of secrets (`CacheSecret`).
- SF of `Reconcile(n)`: names compete for the one worker of their controller, and a
  workqueue serves each name in it.
- WF of the steps of a call that has begun (`Validate`, `Update`), whichever way they end.
  Failures of calls are bounded by `MaxFailures`, so a retry succeeds at last.
- WF of the resync for remote clusters only. `LocationStatusSettles` holds without it.

In all of them nothing is assumed of users, restarts of the manager, sources, or workers: a worker
may hang, and `PodKilled`, `JobDeadline` and `JobExpired` may happen or not.

## Findings

Runs that TLC must find violated; each property states what a document, a comment or
other code of the repository says.

| run | property | what happens |
|---|---|---|
| backup_failed_then_completed | `CompletedHasArtifact` | a worker that reports Failed exits with 0; the Job's success turns Failed to Completed, and a restore waits for a location that never comes |
| store_nfs | `NfsIsShared` | the NFS volume is never mounted in the container, so artifacts stay in the pod |
| apply_definition | `CompletedMeansEverything` | the mapper keeps its first discovery; a resource whose definition is in the archive is passed over without an error |

The models have more behaviours of the same causes, which are not stated as runs: a
restore that failed is turned to Completed in the same way; after the Job's hour a
Completed backup or restore is run again, since no controller looks at the phase before
it creates a Job; a reconcile whose Job list is behind makes a second Job, and two Jobs
that read the clock in one second store under one path; of two documents of an archive
that the mapping brings to one target the first is lost without a word; a
worker that is killed leaves Running until the resync, or for good if the Job expires
before it; deleting the source turns a Completed restore to Failed.

Seen while reading; no run is about them: `backupstoragelocation_controller.go:32` sets
`status.ObservedGeneration`, which `BackupStorageLocationStatus`
(`common_types.go:240-245`) does not have, so the package does not compile as it is;
the Dockerfile copies `cmd/main.go` only, not the other files of the package; the
example of `docs/testing.md:222-233` leaves out `sourceRef.namespace`, which
`restore_controller.go:106` requires; an export in format json is written as adjacent
objects; `includeAllPVCs` "snapshots all PVCs in scope" (`common_types.go:121`), but a
claim whose snapshot's name is cut off may get no snapshot or one of an earlier run;
`includedResources` says "group/resource or Kind" (`common_types.go:131`), but identifiers
are `resource.group`, so an entry with a slash matches nothing and the backup is Completed
and empty (`Names` has it so, and MCBackupExport a backup with such an entry); an
`annotationSelector`, "exact match" (`common_types.go:137`), that asks for the empty value
also takes objects that have other annotations but not that one, because a Go map gives ""
for a key it does not have (`worker_backup.go:567-580`; `AnnotationSelected`, and again a
backup of MCBackupExport); claim "b-c" of backup "a" and claim "c" of backup "a-b" have
one name for their snapshots, so the second to run takes the other's for its own
(`worker_backup.go:355-391`; `SnapshotNameShared`); a RemoteCluster with `insecureSkipTLS` and a `ca.crt` in its secret never gets
a client, and one with a kubeconfig ignores `apiServer`; `sanitizeObject` keeps
ownerReferences and finalizers; a VolumeSnapshot that is restored after its claim
snapshots the new, empty claim.

## Proofs

Every invariant and every action property of the passing runs is a theorem, for every
value of the constants that the named assumptions of the modules allow. TLC evaluates
those assumptions in the runs.

| module | theorem | states | run |
|---|---|---|---|
| `BackupSystemProofs` | `TypeCorrect` | `Spec => []TypeOK` | backup_duplicates |
| | `ArtifactsSound` | `Spec => []PublishedArtifactSound` | backup_incarnations |
| | `LedgerRefinement` | `Spec => LedgerImplemented`: the composed system implements `BackupLedger` | backup_incarnations |
| `BackupJobsProofs` | `RunningHasAJob` | `Spec => []RunningHasJob` | backup_incarnations |
| | `CompletedJustified` | `Spec => []CompletedIsJustified` | backup_duplicates |
| | `ObservedGenerationNeverGoesBack` | `Spec => ObservedGenerationMonotone` | backup_incarnations |
| | `PublicationKept` | `Spec => PublicationNotOverwritten` | backup_duplicates |
| `ArtifactStoreProofs` | `LoadsOwnArtifact` | `Spec => []LoadedIsOwn` | store_artifacts |
| | `KeepsArtifacts` | `Spec => ArtifactsKept` | store_artifacts |
| | `ReadsBack` | `Spec => []S3ReadsBack` | store_artifacts |
| `RestoreSystemProofs` | `TypeCorrect` | `Spec => []TypeOK` | restore_sources |
| | `AppliesFromSource` | `Spec => []AppliedFromSource` | restore_sources |
| | `JobWaitsForArtifact` | `Spec => []JobAwaitsArtifact` | restore_sources |
| | `CompletedJustified` | `Spec => []CompletedIsJustified` | restore_sources |
| `ResourceApplyProofs` | `TypeCorrect` | `Spec => []TypeOK` | apply_archive |
| | `DocumentsStayInScope` | `Spec => []StaysInScope` | apply_archive |
| | `DoneIsRestored` | `Spec => []DoneMeansRestored` | apply_archive |
| | `PrerequisitesComeFirst` | `Spec => []PrerequisitesFirst` | apply_archive |
| | `UndisturbedDoesNotFail` | `Spec => []UndisturbedSucceeds` | apply_archive |
| `BackupExportProofs` | `TypeCorrect` | `Spec => []TypeOK` | export_contents |
| | `CompletedMeansInTime` | `Spec => []CompletedInTime` | export_contents |
| | `ExportsInScope` | `Spec => []ExportedInScope` | export_contents |
| | `ExportsEverything` | `Spec => []ExportComplete` | export_contents |
| | `SnapshotsAreRecent` | `Spec => []SnapshotsRecent` | export_contents |
| | `SnapshotsAreComplete` | `Spec => []SnapshotsComplete` | export_contents |
| `ConfigurationProofs` | `TypeCorrect` | `Spec => []TypeOK` | configuration |
| | `AvailableMeansComplete` | `Spec => []AvailableIsComplete` | configuration |
| | `RestoreTargetWasAnswered` | `Spec => []RestoreTargetAnswered` | configuration |
| | `WorkerAgreesWithItsPod` | `Spec => PodMatchesLocation` | configuration |

The proofs have one shape: an inductive invariant, a lemma per action or per kind of
action that it is kept, and for each property a lemma that the invariant implies it.

**`BackupSystemProofs`.** `PublishedArtifactSound` is not inductive: a location gets into
the status through a copy. The inductive invariant adds what the copies are.
`ManagerCopies`: the cache and the Reconcile call hold a copy that is equal to the object
whenever `fresh` says so, and a Reconcile call that is about to write holds an existing
object. `WorkerCopies`: the same for workers, and a worker that has stored
will publish a location of its object, and if that is in S3 has put the very artifact
there. An accepted update then changes exactly the
object the copy was made from. For the refinement each action is shown to be a step of
the ledger or to leave its four variables alone; the report of a worker
that stored is the only `Publish` or `PublishUnshared`.

**`BackupJobsProofs`** adds the Jobs, one invariant per theorem. `RunningInv`: a
Reconcile call about to write `Running` has a Job of the uid it read, and Jobs keep their
owner. `CompletedInv`: success of a Job, in the API server or in a cached list of any
age, is exit code 0 of its worker (`SuccessIsReal`). `ObservedWithinGeneration` is what
an update must not exceed, and fresh copies give the rest. A location is replaced by a
worker whose copy is current, and a current copy is equal to the object: that is
`PublicationNotOverwritten`, and needs nothing about Jobs, of which any number may run.

**`ArtifactStoreProofs`**, from the four assumptions of `ArtifactStore`. Every place ends
with the six segments of `RelativePath`, whatever prefix stands before them, and the last
six segments determine cluster, owner and second. The inductive invariant says of every
file that its place ends with the path of its content (`FilesOwned`), of every pod and
every published URL that it ends with the path of its owner (`PodsEquipped`,
`PodFilesWritten`, `LocationsOwned`). The assumption that clusters have different
`CLUSTER_ID`s is what the README of the repository asks for; without it the theorems are
false. For `ReadsBack` the invariant adds `ArtifactsBack`: a pod that stored in S3 has
the URL of its key, and the artifact is whole under that key. It is kept because a write
to the same place is of the same content, and because only files on NFS are ever truncated.

**`RestoreSystemProofs`** follows the backups for copies and Jobs (`ManagerCopies`,
`WorkerCopies`, `SuccessIsReal`). The steps of the sources are those of `BackupLedger`:
`SourcesSound` says that the location a source shows, or showed when the cache read it, is
one that was published and of that name, and `LocatedSound` the same of the location a worker
holds, for the source its own copy of the sourceRef names. What is applied was found in
S3 under that location, and nothing takes it away.

**`ResourceApplyProofs`**, from `ApplyAssumption`. `IInv` has the shape of a worker
(`Good`): what it has left is a suffix of the sorted documents. While the target is calm,
`CalmInv` adds that the target of what a worker has passed is reached (`Progressing`), that
targets are reached in the order of the kinds (`InOrder`), that the kinds a worker knows
are served (`KnownServed`), and that a document which no worker has left any more, and no
later one meets, is in its target (`Settled`): any later write there is of a worker that
has it left. `AloneInv` is what a worker that runs alone can rely on at
each call: the namespace is there once it passed that step, the kind is served, the
object it is about to read is there, and the one it read is still the same. Sorting is `ByPriorityFacts`
of `ResourceKindsProofs`: the sorted documents are the same documents, once each if they
were, in the order of their kinds.

**`BackupExportProofs`**, from `ObjectsAssumption`, `AssignmentsAssumption`,
`StampsAssumption` and the assumption on discovery. `WorkerGood` says of a worker that its
calls and namespaces are in scope (`Scoped`), and that an object of the scope that stayed
is in the documents, or among what a call still to be made will find, or missed by a call
without a result. `SnapshotsMade` and `WorkerSnapshots` say the same of volumes, through
two lists: the namespaces left and the claims left. Two runs of one backup have the same names
for the same claims; other claims with that name are what `SnapshotNameShared` excepts, and
the lemma `OneBackup` shows that there are none when the workers run one backup, as in
export_contents.

**`ConfigurationProofs`**, from `ConfigAssumption`, `LocationsAssumption` and
`ScenariosAssumption`. The invariant: a status of the present generation is about the
present spec (`ObjectIsTrue`), because the update of a status is accepted only from a
call whose copy is current, and that call carries the verdict on its copy (`CallIsTrue`).
`BackupGood` says of a pod that waits that it was built for what the specs the controller
saw lead to (`Resolves`), which is one location in every order of the list when there is
one default at most (`StorageLocationResolves`, `ResolvesOnce`).

Lists are built by recursion in the community modules. What is needed of them is proved
by induction over sets: the set of lengths for which a fact holds contains 0 and with each
number the next (`SetInduction`, `IntervalInduction` of `ResourceKindsProofs`).

Model-checked only: liveness (`PickedUp`, `FinishedJobReported`, `StartsOnceSourceReady`,
`LocationStatusSettles`, `RemoteStatusSettles`), since fairness and `ENABLED` are beyond
the prover. The three runs that expect a violation have nothing to prove: their properties
are false.

## What is not modelled

- `writeTarGz`, `extractTarGz` and the decoding of documents: one step that succeeds or
  fails. `sanitizeObject`, `setNestedField` and the output format: content of an object.
- The process of a worker before its first call and after its last: `cmd/worker.go` but for
  the context and the exit code.
- The S3 client, TLS, credentials, flags, metrics, leader election: configuration of
  libraries.
- Generated deep copies, manifests, the end-to-end test scaffolding: no logic.
- `executionMode`, `ttl`, `retainUntil` and `overwritePolicy` are fields the code never
  reads.

## Plan

1. Done: backups (`BackupObjects`, `BackupReconciler`, `BackupWorker`, `BackupSystem`,
   `BackupLedger`); `ArtifactStore`; restores (`RestoreObjects`, `RestoreReconciler`,
   `RestoreWorker`, `RestoreSystem`); `ResourceApply`.
2. Done: the contents of a backup (`ResourceKinds`, `ExportScope`, `BackupExport`) and the
   configuration (`ConfigObjects`, `StorageLocations`, `RemoteClusters`,
   `Configuration`).
3. Done: proofs of all safety invariants and action properties of the runs.
4. Next: what a restore promises as an abstract specification of its own, as `BackupLedger`
   is for backups, with `RestoreSystem` shown to implement it, by TLC and by proof.
5. Next: the steps `WorkerStore` and `WorkerFail` of `BackupWorker`, and the apply step of
   `RestoreWorker`, as abstractions that `BackupExport` and `ResourceApply` are shown to
   implement.
