---------------------------- MODULE ResourceApply -----------------------------
(***************************************************************************)
(* How the worker of a restore applies the documents of an artifact to the *)
(* target cluster, one API call at a time, while other workers apply the   *)
(* same artifact and others write to the cluster.                          *)
(*                                                                         *)
(* A document is [kind, namespace, name]; its content is the document. An  *)
(* object of the cluster is known by the key of the same form and remembers*)
(* the document it was last written from, or Foreign.  The name of a       *)
(* CustomResourceDefinition is the kind that it defines.  A namespace that *)
(* is mapped to the empty name, for which Create would fail, is left out.  *)
(***************************************************************************)
EXTENDS Naturals, Sequences, SequencesExt, ResourceKinds

CONSTANTS
  Archive,            \* resources.yaml and snapshots.yaml: a sequence of documents
  BuiltinKinds,       \* kinds the API server always serves
  Mapping,            \* spec.namespaceMapping
  DefaultNamespace,   \* the namespace of a Restore, NoNamespace for a ClusterRestore
  Workers             \* workers that apply the archive

\* What an object holds that is not there, or that somebody else wrote.
Nobody == [kind |-> "", namespace |-> "", name |-> "nobody"]
Foreign == [kind |-> "", namespace |-> "", name |-> "foreign"]

Documents == ToSet(Archive)

ASSUME ApplyAssumption ==
  /\ {"Namespace", "CustomResourceDefinition"} \subseteq BuiltinKinds
  /\ Archive \in Seq([kind : STRING, namespace : STRING, name : STRING])
  /\ Documents \cap {Nobody, Foreign} = {}
  /\ \A ns \in DOMAIN Mapping : Mapping[ns] # NoNamespace

VARIABLES
  calm,       \* TRUE: only the workers write to the target, and calls work
  live,       \* objects of the target cluster
  worker      \* what each worker is doing

vars == <<calm, live, worker>>

-----------------------------------------------------------------------------
(* Documents.                                                              *)

\* Mutant: documents are applied in the order of the archive.
DocumentsInArchiveOrder == Selected(Archive, LAMBDA d : ~ShouldSkipKind(d.kind))

\* The documents that are not skipped, sorted.
DocumentsToApply ==
  ByPriority(Selected(Archive, LAMBDA d : ~ShouldSkipKind(d.kind)))

\* Mutant: only the mapping is looked at.
TargetNamespaceMappedOnly(ns) ==
  IF ns \in DOMAIN Mapping THEN Mapping[ns] ELSE ns

TargetNamespace(ns) ==
  IF ns \in DOMAIN Mapping THEN Mapping[ns]
  ELSE IF DefaultNamespace # NoNamespace THEN DefaultNamespace ELSE ns

TargetKey(d) ==
  IF d.namespace = NoNamespace THEN d ELSE [d EXCEPT !.namespace = TargetNamespace(@)]

NamespaceKey(ns) == [kind |-> "Namespace", namespace |-> NoNamespace, name |-> ns]

TargetKeys == {TargetKey(d) : d \in Documents}

Keys ==
  TargetKeys \cup
    {NamespaceKey(k.namespace) : k \in {x \in TargetKeys : x.namespace # NoNamespace}}

Objects == [Keys -> Documents \cup {Nobody, Foreign}]

\* The kinds that the API server serves with these objects.
ServedWith(objects) ==
  BuiltinKinds \cup
    {k.name : k \in {x \in Keys : x.kind = "CustomResourceDefinition" /\ objects[x] # Nobody}}

\* Whether the API server accepts an object with this key.
AcceptedWith(objects, k) ==
  /\ k.kind \in ServedWith(objects)
  /\ k.namespace # NoNamespace => objects[NamespaceKey(k.namespace)] # Nobody

Present(k) == live[k] # Nobody
Served == ServedWith(live)
Accepted(k) == AcceptedWith(live, k)

\* The objects that go when the object with key k goes.
Dependents(k) ==
  {x \in Keys : \/ x = k
                \/ k.kind = "Namespace" /\ x.namespace = k.name
                \/ k.kind = "CustomResourceDefinition" /\ x.kind = k.name}

-----------------------------------------------------------------------------
(* Workers.  A worker discovers the kinds at its first mapping and keeps   *)
(* them: the mapper does not look again for a kind it does not know.       *)

WorkerStates == {"waiting", "namespace", "makeNamespace", "mapping", "create",
                 "get", "update", "done", "failed"}

Undiscovered == {}

NewWorker == [pc |-> "waiting", todo |-> <<>>, known |-> Undiscovered, fresh |-> FALSE]

Running(w) == worker[w].pc \notin {"waiting", "done", "failed"}

Doc(w) == Head(worker[w].todo)
Key(w) == TargetKey(Doc(w))

Goto(w, pc) == worker' = [worker EXCEPT ![w].pc = pc]

\* Where to go on with these documents.
Proceed(todo) ==
  IF todo = <<>> THEN "done"
  ELSE IF Head(todo).namespace = NoNamespace THEN "mapping" ELSE "namespace"

\* Mutant: the end of the documents is not noticed.
NextDocumentUnchecked(r) ==
  [r EXCEPT !.todo = Tail(@), !.pc = "mapping", !.fresh = FALSE]

NextDocument(r) ==
  LET rest == Tail(r.todo) IN
    [r EXCEPT !.todo = rest, !.pc = Proceed(rest), !.fresh = FALSE]

\* A write to an object outdates what other workers have read of it.
Outdated(keys) ==
  [v \in Workers |->
     IF Running(v) /\ Key(v) \in keys THEN [worker[v] EXCEPT !.fresh = FALSE]
                                      ELSE worker[v]]

WriteDocument(w) ==
  /\ live' = [live EXCEPT ![Key(w)] = Doc(w)]
  /\ worker' = [Outdated({Key(w)}) EXCEPT ![w] = NextDocument(@)]

Start(w) ==
  /\ worker[w].pc = "waiting"
  /\ worker' = [worker EXCEPT ![w].todo = DocumentsToApply,
                              ![w].pc = Proceed(DocumentsToApply)]
  /\ UNCHANGED live

GetNamespace(w) ==
  /\ worker[w].pc = "namespace"
  /\ Goto(w, IF Present(NamespaceKey(Key(w).namespace)) THEN "mapping"
                                                        ELSE "makeNamespace")
  /\ UNCHANGED live

\* Mutant: the namespace is not made.
CreateNamespaceNot(w) ==
  /\ worker[w].pc = "makeNamespace"
  /\ Goto(w, "mapping")
  /\ UNCHANGED live

\* If it has been made since, Create is answered with AlreadyExists.
CreateNamespace(w) ==
  /\ worker[w].pc = "makeNamespace"
  /\ LET k == NamespaceKey(Key(w).namespace) IN
       IF Present(k)
         THEN Goto(w, "failed") /\ UNCHANGED live
         ELSE /\ live' = [live EXCEPT ![k] = Foreign]
              /\ worker' = [Outdated({k}) EXCEPT ![w].pc = "mapping"]

\* A document whose kind is not known is passed over, as is one whose kind
\* could not be looked up because discovery failed (not calm).
MapKind(w) ==
  /\ worker[w].pc = "mapping"
  /\ LET known == IF worker[w].known = Undiscovered THEN Served ELSE worker[w].known
     IN  worker' = [worker EXCEPT ![w] =
                      IF Doc(w).kind \in known
                        THEN [@ EXCEPT !.known = known, !.pc = "create"]
                        ELSE NextDocument([@ EXCEPT !.known = known])]
  /\ UNCHANGED live

DiscoveryFails(w) ==
  /\ ~calm /\ worker[w].pc = "mapping" /\ worker[w].known = Undiscovered
  /\ worker' = [worker EXCEPT ![w] = NextDocument(@)]
  /\ UNCHANGED live

\* Mutant: an object that exists is left as it is.
CreateOrLeave(w) ==
  /\ worker[w].pc = "create"
  /\ IF Accepted(Key(w)) /\ ~Present(Key(w))
       THEN WriteDocument(w)
       ELSE worker' = [worker EXCEPT ![w] = NextDocument(@)] /\ UNCHANGED live

Create(w) ==
  /\ worker[w].pc = "create"
  /\ IF Accepted(Key(w)) /\ ~Present(Key(w))
       THEN WriteDocument(w)
       ELSE Goto(w, IF Accepted(Key(w)) THEN "get" ELSE "failed") /\ UNCHANGED live

Get(w) ==
  /\ worker[w].pc = "get"
  /\ worker' = [worker EXCEPT ![w].pc = IF Present(Key(w)) THEN "update" ELSE "failed",
                              ![w].fresh = Present(Key(w))]
  /\ UNCHANGED live

\* Conflict, or NotFound, when the object is not the one that was read.
Update(w) ==
  /\ worker[w].pc = "update"
  /\ IF worker[w].fresh
       THEN WriteDocument(w)
       ELSE Goto(w, "failed") /\ UNCHANGED live

\* An API error, or the end of the pod.
Fail(w) ==
  /\ ~calm /\ Running(w)
  /\ Goto(w, "failed")
  /\ UNCHANGED live

WorkerStep(w) ==
  \/ Start(w) \/ GetNamespace(w) \/ CreateNamespace(w) \/ MapKind(w)
  \/ DiscoveryFails(w) \/ Create(w) \/ Get(w) \/ Update(w) \/ Fail(w)

-----------------------------------------------------------------------------
(* Others who write to the target cluster.                                 *)

OtherWrites(k) ==
  /\ ~calm /\ Accepted(k)
  /\ live' = [live EXCEPT ![k] = Foreign]
  /\ worker' = Outdated({k})

OtherDeletes(k) ==
  /\ ~calm /\ Present(k)
  /\ live' = [x \in Keys |-> IF x \in Dependents(k) THEN Nobody ELSE live[x]]
  /\ worker' = Outdated(Dependents(k))

\* The target may already hold any of the objects.
Init ==
  /\ calm \in BOOLEAN
  /\ live \in {o \in [Keys -> {Nobody, Foreign}] :
               \A k \in Keys : o[k] # Nobody => AcceptedWith(o, k)}
  /\ worker = [w \in Workers |-> NewWorker]

Next ==
  /\ \/ \E w \in Workers : WorkerStep(w)
     \/ \E k \in Keys : OtherWrites(k) \/ OtherDeletes(k)
  /\ UNCHANGED calm

Spec == Init /\ [][Next]_vars

-----------------------------------------------------------------------------
(* Properties.                                                             *)

\* The type invariant: a worker has documents left exactly while it runs, knows
\* the built-in kinds once it has discovered any, and relies on what it read
\* only between Get and Update.
TypeOK ==
  /\ calm \in BOOLEAN /\ live \in Objects
  /\ \A w \in Workers :
       /\ worker[w].pc \in WorkerStates
       /\ IsSuffix(worker[w].todo, DocumentsToApply)
       /\ Running(w) <=> worker[w].todo # <<>> /\ worker[w].pc # "failed"
       /\ worker[w].known # Undiscovered => BuiltinKinds \subseteq worker[w].known
       /\ worker[w].fresh => worker[w].pc \in {"update", "failed"}

\* Only the mapping and the namespace of the Restore decide where namespaced
\* documents go: workers write into no other namespace, and an object holds a
\* document only under the document's own kind and name (worker_restore.go:292-306).
StaysInScope ==
  \A k \in Keys : live[k] \in Documents =>
    /\ k.kind = live[k].kind /\ k.name = live[k].name
    /\ k.namespace = NoNamespace <=> live[k].namespace = NoNamespace
    /\ \/ k.namespace \in {NoNamespace, DefaultNamespace}
       \/ live[k].namespace \in DOMAIN Mapping /\ k.namespace = Mapping[live[k].namespace]
       \/ DefaultNamespace = NoNamespace /\ k.namespace = live[k].namespace

\* The target of d holds d, or another document that meets it there.
Reached(d) == live[TargetKey(d)] \in Documents

\* The documents that a restore of this archive is to bring to any cluster.
Applicable == {d \in Documents : ~ShouldSkipKind(d.kind) /\ d.kind \in BuiltinKinds}

\* The documents that no later one meets in their target.
LastThere ==
  {DocumentsToApply[i] : i \in {i \in DOMAIN DocumentsToApply :
     \A j \in DOMAIN DocumentsToApply :
       j > i => TargetKey(DocumentsToApply[j]) # TargetKey(DocumentsToApply[i])}}

\* While nobody else writes, and calls work, a worker that is done has brought every
\* document of a built-in kind to its target, over whatever was there, even when
\* another restore of the archive ran at the same time; and when none is under way
\* any more and none failed, each target holds the last of the documents that meet
\* in it (worker_restore.go:292-302, 319-334).  The others have been overwritten,
\* without a word, as those of two namespaces that are mapped to one.
DoneMeansRestored ==
  calm => \A w \in Workers : worker[w].pc = "done" =>
    /\ \A d \in Applicable : Reached(d)
    /\ (\A v \in Workers : worker[v].pc \in {"waiting", "done"}) =>
         \A d \in Applicable \cap LastThere : live[TargetKey(d)] = d

\* While nobody else writes, and calls work, a document is brought to its target only
\* when the targets of all documents of earlier kinds are reached: a workload finds
\* its namespace, its service account and its configuration (worker_restore.go:280).
PrerequisitesFirst ==
  calm => \A d, e \in Applicable :
    /\ ResourcePriority(e.kind) < ResourcePriority(d.kind)
    /\ Reached(d)
    => Reached(e)

\* A restore that nobody disturbs, no other restore either, does not fail, whatever
\* objects the target held before (worker_restore.go:261-278, 319-334).  Contents
\* that the API server refuses, such as a change of an immutable field of what was
\* there, are errors of calls, which are not calm.
UndisturbedSucceeds ==
  calm => \A w \in Workers :
    worker[w].pc = "failed" => \E v \in Workers \ {w} : worker[v].pc # "waiting"

\* Refuted: "restore completed" (worker_restore.go:123); a document of a kind
\* that the archive itself defines is passed over without an error.
CompletedMeansEverything ==
  calm => \A w \in Workers : worker[w].pc = "done" =>
    \A d \in Documents : ShouldSkipKind(d.kind) \/ live[TargetKey(d)] = d

=============================================================================
