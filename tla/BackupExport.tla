----------------------------- MODULE BackupExport ------------------------------
(***************************************************************************)
(* What a backup worker puts into its artifact: exportResources and        *)
(* exportSnapshots, one API call at a time, in a cluster that others       *)
(* change, with calls that fail, a context that ends after two hours, and  *)
(* other workers of the same backup (a duplicate Job, or a second run).    *)
(***************************************************************************)
EXTENDS ExportScope

CONSTANTS
  Objects,      \* objects that may be in the cluster
  Initial,      \* those that are there in the beginning
  Workers,      \* worker processes
  Assignments,  \* functions from the workers that are started to their BackupSpecs
  Stamps,       \* timestamps of the clock, one a second; its length is a bound
  MaxChanges,   \* bound: changes that others make to the cluster
  MaxFailures   \* bound: API calls that fail by themselves

ASSUME StampsAssumption ==
  /\ Stamps \in Seq(STRING) /\ Stamps # <<>>
  /\ \A i, j \in DOMAIN Stamps : Stamps[i] = Stamps[j] => i = j
  /\ \A i \in DOMAIN Stamps : Stamps[i] # "-"
ASSUME BoundsAssumption == MaxChanges \in Nat /\ MaxFailures \in Nat

VARIABLES
  clock,        \* index of the current second in Stamps
  cluster,      \* objects in the cluster, VolumeSnapshots apart
  snapshots,    \* VolumeSnapshots in the cluster
  task,         \* the spec of the backup each worker works for
  worker,       \* what each worker is doing
  changes,      \* changes made by others so far
  failures,     \* calls that failed so far

  \* Auxiliary: what was there, and what was not listed, during each export.
  ever,         \* objects that were in the cluster at some time
  always,       \* objects that were in the cluster all the time
  missed,       \* kinds and namespaces for which a call had no result
  late          \* whether a call was passed over because the context had ended

history == <<ever, always, missed, late>>
vars == <<clock, cluster, snapshots, task, worker, changes, failures, history>>

-----------------------------------------------------------------------------
(* The cluster.                                                            *)

NamespaceOf(o) == IF o.namespace = NoNamespace THEN {} ELSE {o.namespace}

NamespacesIn(objects) == {o.name[1] : o \in {x \in objects : x.kind = "Namespace"}}

\* The API server's rule for names: they do not end with a dash.
ValidName(name) == name # <<>> /\ Last(name) # "-"

\* Objects have names, and a namespace unless their type has none; in the
\* beginning that namespace is there.
ASSUME ObjectsAssumption ==
  /\ IsFiniteSet(Objects) /\ Initial \subseteq Objects
  /\ \A o \in Objects :
       /\ o.name \in Seq(STRING) /\ o.name # <<>> /\ o.namespace \in STRING
       /\ o.kind = "Namespace" => o.namespace = NoNamespace /\ o.name[1] # NoNamespace
       /\ o.kind = "PersistentVolumeClaim" => o.namespace # NoNamespace
       /\ \A t \in Types : t.kind = o.kind => (t.namespaced <=> o.namespace # NoNamespace)
  /\ \A o \in Initial : NamespaceOf(o) \subseteq NamespacesIn(Initial)

\* Each worker has a Backup or a ClusterBackup.  A Backup is in a namespace; the
\* namespaces a ClusterBackup includes are named once each, and by a name: a List
\* call would take "" for all namespaces.
ASSUME AssignmentsAssumption ==
  \A a \in Assignments :
    /\ DOMAIN a \subseteq Workers
    /\ \A w \in DOMAIN a :
         /\ a[w].kind \in {"Backup", "ClusterBackup"} /\ a[w].name \in Seq(STRING)
         /\ a[w].kind = "Backup" => a[w].namespace \in STRING \ {NoNamespace}
         /\ IsFiniteSet(a[w].included) /\ a[w].included \subseteq STRING \ {NoNamespace}

SnapshotAt(ns, name) == {s \in snapshots : s.namespace = ns /\ s.name = name}

-----------------------------------------------------------------------------
(* Workers.                                                                *)

WorkerStates == {"waiting", "namespaces", "discovery", "listing", "sorted",
                 "claims", "snapshotting", "existing", "packed", "stored",
                 "completed", "failing", "ended"}

NewWorker ==
  [pc |-> "waiting", intime |-> TRUE, calls |-> <<>>, documents |-> <<>>,
   namespaces |-> <<>>, claims |-> <<>>, stamp |-> 1, taken |-> <<>>]

Goto(w, pc) == worker' = [worker EXCEPT ![w].pc = pc]

Exporting(w) == worker[w].pc \notin {"waiting", "completed", "ended"}

\* An API call gets an answer in time; or fails because the context has ended,
\* or because of the network, the API server or the permissions.
Answered(w) == worker[w].intime /\ UNCHANGED failures

CallFails(w) ==
  \/ ~worker[w].intime /\ UNCHANGED failures
  \/ worker[w].intime /\ failures < MaxFailures /\ failures' = failures + 1

\* A call whose error is passed over: the export goes on without its result.
PassedOver(w, calls) ==
  /\ CallFails(w)
  /\ missed' = [missed EXCEPT ![w] = @ \cup calls]
  /\ late' = [late EXCEPT ![w] = @ \/ ~worker[w].intime]
  /\ UNCHANGED <<ever, always>>

KindCalls(calls) == {[kind |-> c.type.kind, namespace |-> c.namespace] : c \in calls}

StartExport(w) ==
  /\ worker[w].pc = "waiting"
  /\ Goto(w, IF task[w].export THEN "namespaces" ELSE "sorted")
  /\ ever' = [ever EXCEPT ![w] = cluster]
  /\ always' = [always EXCEPT ![w] = cluster]
  /\ UNCHANGED <<clock, cluster, snapshots, task, changes, failures, missed, late>>

\* Namespaces are listed only when none are named; an error ends the backup.
AsksForNamespaces(spec) == spec.kind = "ClusterBackup" /\ spec.included = {}

ResolveNamespaces(w) ==
  /\ worker[w].pc = "namespaces"
  /\ AsksForNamespaces(task[w]) => worker[w].intime
  /\ worker' = [worker EXCEPT ![w].pc = "discovery",
       ![w].namespaces = SetToSeq(ResolvedNamespaces(task[w], NamespacesIn(cluster)))]
  /\ UNCHANGED <<clock, cluster, snapshots, task, changes, failures, history>>

ResolveNamespacesFails(w) ==
  /\ worker[w].pc = "namespaces" /\ AsksForNamespaces(task[w])
  /\ CallFails(w)
  /\ Goto(w, "failing")
  /\ UNCHANGED <<clock, cluster, snapshots, task, changes, history>>

\* Groups whose discovery fails are left out; the core group answers or nothing.
Discover(w) ==
  /\ worker[w].pc = "discovery" /\ worker[w].intime
  /\ \E broken \in SUBSET ({t.group : t \in Types} \ {CoreGroup}) :
       LET found == Selected(Discovery, LAMBDA t : t.group \notin broken)
           namespaces == ToSet(worker[w].namespaces)
       IN  /\ broken # {} => failures < MaxFailures
           /\ failures' = IF broken = {} THEN failures ELSE failures + 1
           /\ worker' = [worker EXCEPT ![w].pc = "listing",
                           ![w].calls = CallsFor(task[w], found, namespaces)]
           /\ missed' = [missed EXCEPT ![w] =
                KindCalls({c \in ToSet(CallsFor(task[w], Discovery, namespaces)) :
                             c.type.group \in broken})]
  /\ UNCHANGED <<clock, cluster, snapshots, task, changes, ever, always, late>>

DiscoverFails(w) ==
  /\ worker[w].pc = "discovery"
  /\ CallFails(w)
  /\ Goto(w, "failing")
  /\ UNCHANGED <<clock, cluster, snapshots, task, changes, history>>

Listing(w) == worker[w].pc = "listing" /\ worker[w].calls # <<>>

\* Mutant: the objects of the last call replace those of the calls before.
ListResourcesReplaces(w) ==
  /\ Listing(w) /\ Answered(w)
  /\ worker' = [worker EXCEPT ![w].calls = Tail(@),
       ![w].documents = SetToSeq(Kept(task[w], Head(worker[w].calls), cluster))]
  /\ UNCHANGED <<clock, cluster, snapshots, task, changes, history>>

ListResources(w) ==
  /\ Listing(w) /\ Answered(w)
  /\ worker' = [worker EXCEPT ![w].calls = Tail(@),
       ![w].documents = @ \o SetToSeq(Kept(task[w], Head(worker[w].calls), cluster))]
  /\ UNCHANGED <<clock, cluster, snapshots, task, changes, history>>

\* The error of a List call is passed over.
ListResourcesFails(w) ==
  /\ Listing(w)
  /\ PassedOver(w, KindCalls({Head(worker[w].calls)}))
  /\ worker' = [worker EXCEPT ![w].calls = Tail(@)]
  /\ UNCHANGED <<clock, cluster, snapshots, task, changes>>

SortDocuments(w) ==
  /\ worker[w].pc = "listing" /\ worker[w].calls = <<>>
  /\ worker' = [worker EXCEPT ![w].pc = "sorted", ![w].documents = ByPriority(@)]
  /\ UNCHANGED <<clock, cluster, snapshots, task, changes, failures, history>>

-----------------------------------------------------------------------------
(* exportSnapshots resolves the namespaces again, and takes the time anew. *)

StartSnapshots(w) ==
  /\ worker[w].pc = "sorted"
  /\ IF SnapshotsEnabled(task[w])
       THEN /\ AsksForNamespaces(task[w]) => worker[w].intime
            /\ worker' = [worker EXCEPT ![w].pc = "claims", ![w].stamp = clock,
                 ![w].namespaces =
                   SetToSeq(ResolvedNamespaces(task[w], NamespacesIn(cluster)))]
       ELSE Goto(w, "packed")
  /\ UNCHANGED <<clock, cluster, snapshots, task, changes, failures, history>>

StartSnapshotsFails(w) ==
  /\ worker[w].pc = "sorted"
  /\ SnapshotsEnabled(task[w]) /\ AsksForNamespaces(task[w])
  /\ CallFails(w)
  /\ Goto(w, "failing")
  /\ UNCHANGED <<clock, cluster, snapshots, task, changes, history>>

Namespace(w) == Head(worker[w].namespaces)

SnapshotsOf(w) == {[kind |-> "VolumeSnapshot", namespace |-> Namespace(w)]}

NextNamespace(r) == [r EXCEPT !.pc = "claims", !.namespaces = Tail(@)]

\* The claims of the next namespace; when its List call fails, it is passed over.
ListClaims(w) ==
  /\ worker[w].pc = "claims" /\ worker[w].namespaces # <<>>
  /\ Answered(w)
  /\ worker' = [worker EXCEPT ![w].pc = "snapshotting",
                  ![w].claims = SetToSeq(Claims(task[w], Namespace(w), cluster))]
  /\ UNCHANGED <<clock, cluster, snapshots, task, changes, history>>

ListClaimsFails(w) ==
  /\ worker[w].pc = "claims" /\ worker[w].namespaces # <<>>
  /\ PassedOver(w, SnapshotsOf(w))
  /\ worker' = [worker EXCEPT ![w] = NextNamespace(@)]
  /\ UNCHANGED <<clock, cluster, snapshots, task, changes>>

EndOfClaims(w) ==
  /\ worker[w].pc = "snapshotting" /\ worker[w].claims = <<>>
  /\ worker' = [worker EXCEPT ![w] = NextNamespace(@)]
  /\ UNCHANGED <<clock, cluster, snapshots, task, changes, failures, history>>

Claim(w) == Head(worker[w].claims)

NameFor(w) == SnapshotName(task[w].name, Claim(w).name, Stamps[worker[w].stamp])

SnapshotFor(w) ==
  [namespace |-> Namespace(w), name |-> NameFor(w), backup |-> task[w].name,
   claim |-> Claim(w).name, made |-> clock]

Took(r, s) == [r EXCEPT !.pc = "snapshotting", !.claims = Tail(@), !.taken = Append(@, s)]

WithoutSnapshot(r) == [r EXCEPT !.pc = "snapshotting", !.claims = Tail(@)]

Creating(w) == worker[w].pc = "snapshotting" /\ worker[w].claims # <<>>

CreateSnapshot(w) ==
  /\ Creating(w) /\ Answered(w)
  /\ SnapshotAt(Namespace(w), NameFor(w)) = {} /\ ValidName(NameFor(w))
  /\ Namespace(w) \in NamespacesIn(cluster)
  /\ snapshots' = snapshots \cup {SnapshotFor(w)}
  /\ worker' = [worker EXCEPT ![w] = Took(@, SnapshotFor(w))]
  /\ UNCHANGED <<clock, cluster, task, changes, history>>

\* Mutant: what exists is somebody else's.
SnapshotExistsSkipped(w) ==
  /\ Creating(w) /\ Answered(w)
  /\ SnapshotAt(Namespace(w), NameFor(w)) # {}
  /\ worker' = [worker EXCEPT ![w] = WithoutSnapshot(@)]
  /\ UNCHANGED <<clock, cluster, snapshots, task, changes, history>>

\* AlreadyExists: the snapshot of that name is used.
SnapshotExists(w) ==
  /\ Creating(w) /\ Answered(w)
  /\ SnapshotAt(Namespace(w), NameFor(w)) # {}
  /\ Goto(w, "existing")
  /\ UNCHANGED <<clock, cluster, snapshots, task, changes, history>>

GetSnapshot(w) ==
  /\ worker[w].pc = "existing" /\ Answered(w)
  /\ \E s \in SnapshotAt(Namespace(w), NameFor(w)) :
       worker' = [worker EXCEPT ![w] = Took(@, s)]
  /\ UNCHANGED <<clock, cluster, snapshots, task, changes, history>>

\* Any other error of Create, or of the Get, is passed over: a call that fails,
\* a name that is not valid, a namespace or a snapshot that is gone.
SnapshotFails(w) ==
  /\ Creating(w) \/ worker[w].pc = "existing"
  /\ PassedOver(w, SnapshotsOf(w))
  /\ worker' = [worker EXCEPT ![w] = WithoutSnapshot(@)]
  /\ UNCHANGED <<clock, cluster, snapshots, task, changes>>

SnapshotRefused(w) ==
  /\ Creating(w) /\ Answered(w)
  /\ SnapshotAt(Namespace(w), NameFor(w)) = {}
  /\ ~ValidName(NameFor(w)) \/ Namespace(w) \notin NamespacesIn(cluster)
  /\ worker' = [worker EXCEPT ![w] = WithoutSnapshot(@)]
  /\ UNCHANGED <<clock, cluster, snapshots, task, changes, history>>

SnapshotGone(w) ==
  /\ worker[w].pc = "existing" /\ Answered(w)
  /\ SnapshotAt(Namespace(w), NameFor(w)) = {}
  /\ worker' = [worker EXCEPT ![w] = WithoutSnapshot(@)]
  /\ missed' = [missed EXCEPT ![w] = @ \cup SnapshotsOf(w)]
  /\ UNCHANGED <<clock, cluster, snapshots, task, changes, ever, always, late>>

-----------------------------------------------------------------------------
(* The artifact and the report.                                            *)

Pack(w) ==
  /\ worker[w].pc = "claims" /\ worker[w].namespaces = <<>>
  /\ Goto(w, "packed")
  /\ UNCHANGED <<clock, cluster, snapshots, task, changes, failures, history>>

\* An upload ends with the context, writing to a mounted export does not.
StoreArtifact(w) ==
  /\ worker[w].pc = "packed"
  /\ Goto(w, "stored")
  /\ UNCHANGED <<clock, cluster, snapshots, task, changes, failures, history>>

StoreArtifactFails(w) ==
  /\ worker[w].pc = "packed" /\ CallFails(w)
  /\ Goto(w, "failing")
  /\ UNCHANGED <<clock, cluster, snapshots, task, changes, history>>

\* Mutant: the report has a context of its own.
ReportLate(w) ==
  /\ worker[w].pc \in {"stored", "failing"} /\ UNCHANGED failures
  /\ Goto(w, IF worker[w].pc = "stored" THEN "completed" ELSE "ended")
  /\ UNCHANGED <<clock, cluster, snapshots, task, changes, history>>

Report(w) ==
  /\ worker[w].pc \in {"stored", "failing"} /\ Answered(w)
  /\ Goto(w, IF worker[w].pc = "stored" THEN "completed" ELSE "ended")
  /\ UNCHANGED <<clock, cluster, snapshots, task, changes, history>>

ReportFails(w) ==
  /\ worker[w].pc \in {"stored", "failing"} /\ CallFails(w)
  /\ Goto(w, "ended")
  /\ UNCHANGED <<clock, cluster, snapshots, task, changes, history>>

\* workerContext: two hours are over.
ContextEnds(w) ==
  /\ Exporting(w) /\ worker[w].intime
  /\ worker' = [worker EXCEPT ![w].intime = FALSE]
  /\ UNCHANGED <<clock, cluster, snapshots, task, changes, failures, history>>

ExportStep(w) ==
  \/ StartExport(w) \/ ResolveNamespaces(w) \/ ResolveNamespacesFails(w)
  \/ Discover(w) \/ DiscoverFails(w)
  \/ ListResources(w) \/ ListResourcesFails(w) \/ SortDocuments(w)

SnapshotStep(w) ==
  \/ StartSnapshots(w) \/ StartSnapshotsFails(w) \/ ListClaims(w) \/ ListClaimsFails(w)
  \/ EndOfClaims(w) \/ CreateSnapshot(w) \/ SnapshotExists(w) \/ GetSnapshot(w)
  \/ SnapshotFails(w) \/ SnapshotRefused(w) \/ SnapshotGone(w)

WorkerStep(w) ==
  \/ ExportStep(w) \/ SnapshotStep(w)
  \/ Pack(w) \/ StoreArtifact(w) \/ StoreArtifactFails(w)
  \/ Report(w) \/ ReportFails(w) \/ ContextEnds(w)

-----------------------------------------------------------------------------
(* Others, and the clock.                                                  *)

Change(objects) ==
  /\ changes < MaxChanges /\ changes' = changes + 1
  /\ cluster' = objects
  /\ ever' = [w \in Workers |-> IF Exporting(w) THEN ever[w] \cup objects ELSE ever[w]]
  /\ always' = [w \in Workers |-> IF Exporting(w) THEN always[w] \cap objects ELSE always[w]]
  /\ UNCHANGED <<clock, task, worker, failures, missed, late>>

OthersCreate(o) ==
  /\ o \notin cluster
  /\ ~\E x \in cluster : x.kind = o.kind /\ x.namespace = o.namespace /\ x.name = o.name
  /\ NamespaceOf(o) \subseteq NamespacesIn(cluster)
  /\ Change(cluster \cup {o})
  /\ UNCHANGED snapshots

\* With a namespace everything in it goes.
OthersDelete(o) ==
  /\ o \in cluster
  /\ LET gone == IF o.kind = "Namespace" THEN {o.name[1]} ELSE {} IN
       /\ Change({x \in cluster \ {o} : x.namespace \notin gone})
       /\ snapshots' = {s \in snapshots : s.namespace \notin gone}

OthersDeleteSnapshot(s) ==
  /\ Change(cluster)
  /\ snapshots' = snapshots \ {s}

Tick ==
  /\ clock < Len(Stamps)
  /\ clock' = clock + 1
  /\ UNCHANGED <<cluster, snapshots, task, worker, changes, failures, history>>

Init ==
  /\ clock = 1
  /\ cluster = Initial
  /\ snapshots = {}
  /\ task \in Assignments
  /\ worker = [w \in Workers |-> NewWorker]
  /\ changes = 0 /\ failures = 0
  /\ ever = [w \in Workers |-> {}]
  /\ always = ever
  /\ missed = ever
  /\ late = [w \in Workers |-> FALSE]

Next ==
  \/ \E w \in DOMAIN task : WorkerStep(w)
  \/ \E o \in Objects : OthersCreate(o) \/ OthersDelete(o)
  \/ \E s \in snapshots : OthersDeleteSnapshot(s)
  \/ Tick

Spec == Init /\ [][Next]_vars

-----------------------------------------------------------------------------
(* Properties.                                                             *)

Archived(w) == worker[w].pc \in {"stored", "completed"}

Documents(w) == ToSet(worker[w].documents)

\* The type invariant: calls and claims are left only while they are worked on,
\* snapshots and the stamp of their names are of a second that has come.
TypeOK ==
  /\ clock \in DOMAIN Stamps /\ cluster \subseteq Objects /\ task \in Assignments
  /\ changes \in 0..MaxChanges /\ failures \in 0..MaxFailures
  /\ \A s \in snapshots : s.made \in 1..clock /\ Len(s.name) <= MaxNameLength
  /\ \A w \in Workers :
       /\ worker[w].pc \in WorkerStates /\ worker[w].intime \in BOOLEAN
       /\ worker[w].calls # <<>> => worker[w].pc \in {"listing", "failing", "ended"}
       /\ worker[w].claims # <<>> => worker[w].pc \in {"snapshotting", "existing"}
       /\ worker[w].stamp \in 1..clock
       /\ always[w] \subseteq ever[w] /\ ever[w] \subseteq Objects

\* An artifact contains objects of the backup's scope only, the scope being what the
\* worker takes the fields of BackupSpec for (InScope; where the API's comments
\* promise more is said there), whatever groups and calls fail and whatever others
\* do to namespaces and objects after the calls were planned (worker_backup.go:232-293).
ExportedInScope ==
  \A w \in Workers : Archived(w) =>
    \A o \in Documents(w) : InScope(task[w], o) /\ o \in ever[w]

\* An artifact contains every object of the scope that was there during the
\* whole export, once, unless the List call that was to find it failed: no
\* filter, order of calls or change of other objects loses one.
ExportComplete ==
  \A w \in Workers : Archived(w) /\ task[w].export =>
    \A o \in always[w] :
      \/ ~InScope(task[w], o)
      \/ [kind |-> o.kind, namespace |-> o.namespace] \in missed[w]
      \/ \E i \in DOMAIN worker[w].documents :
           \A j \in DOMAIN worker[w].documents : worker[w].documents[j] = o <=> j = i

\* A backup is Completed only if its export ended within the two hours of the
\* worker's context, although exports pass over the calls that fail because the
\* context has ended, and an artifact on NFS is stored without one (worker.go:54,
\* worker_backup.go:261, 393).
CompletedInTime == \A w \in Workers : worker[w].pc = "completed" => ~late[w]

\* A snapshot an artifact refers to is in the scope of its backup and, unless its
\* name is as long as names may be and was perhaps cut off, was taken by this run or
\* another one in the same second, not by an earlier one, also when the call found
\* that its name is taken (worker_backup.go:355-391).
SnapshotsRecent ==
  \A w \in Workers : \A s \in ToSet(worker[w].taken) :
    /\ NamespaceInScope(task[w], s.namespace)
    /\ Len(s.name) < MaxNameLength => s.made >= worker[w].stamp

\* Claim "b-c" of backup "a" and claim "c" of backup "a-b" have one name for their
\* snapshots.
SnapshotNameShared(spec, claim) ==
  \E b \in Assignments : \E v, w \in DOMAIN b : \E x \in Objects : \E i, j \in DOMAIN Stamps :
    /\ b[v] = spec /\ x.kind = "PersistentVolumeClaim"
    /\ x.namespace = claim.namespace /\ x.name # claim.name
    /\ FullName(spec.name, claim.name, Stamps[i]) = FullName(b[w].name, x.name, Stamps[j])

\* Every volume of the scope that was there during the whole export, and that the
\* backup asks for, has a snapshot in the artifact, unless a call about snapshots in
\* its namespace failed: also when several runs of the backup meet in one second
\* (worker_backup.go:356-397).  Not so, and left out here, are volumes whose snapshot's
\* name is as long as names may be, and was perhaps cut off, and volumes whose
\* snapshot may have the name of one that another backup takes of another volume.
SnapshotsComplete ==
  \A w \in Workers : (Archived(w) /\ SnapshotsEnabled(task[w])) =>
    \A o \in always[w] :
      \/ o.kind # "PersistentVolumeClaim" \/ ~NamespaceInScope(task[w], o.namespace)
      \/ ~(task[w].snapshot.selector \subseteq o.labels)
      \/ [kind |-> "VolumeSnapshot", namespace |-> o.namespace] \in missed[w]
      \/ Len(FullName(task[w].name, o.name, Stamps[1])) >= MaxNameLength
      \/ \E s \in ToSet(worker[w].taken) : s.claim = o.name /\ s.namespace = o.namespace
      \/ SnapshotNameShared(task[w], o)

================================================================================
