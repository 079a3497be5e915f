------------------------------ MODULE ExportScope ------------------------------
(***************************************************************************)
(* Which objects a backup exports and which volumes it takes snapshots of: *)
(* the filters the worker applies, and the scope they stand for, stated    *)
(* for one object at a time.                                               *)
(*                                                                         *)
(* A resource type is [group, name, kind, namespaced, listable]; a         *)
(* subresource is not listable.  An object is [kind, namespace, name,      *)
(* labels, annotations], its name a sequence of parts of which each counts *)
(* for one.  Entries of includedResources and excludedResources are        *)
(* identifiers, sequences of one or two words, as they are normalised.     *)
(***************************************************************************)
EXTENDS ResourceKinds, FiniteSets

CONSTANTS
  Discovery,        \* the types the API server serves, in the order of discovery
  MaxNameLength     \* 63, in parts of names

Types == ToSet(Discovery)

ASSUME DiscoveryAssumption ==
  /\ Discovery \in Seq(Types)
  /\ \A i, j \in DOMAIN Discovery : Discovery[i].kind = Discovery[j].kind => i = j

ASSUME MaxNameLengthAssumption == MaxNameLength \in Nat \ {0}

\* The API group of the types that Kubernetes began with.
CoreGroup == ""

\* The value of an annotation that is not there, as a Go map gives it.
NoValue == ""

Call(t, ns) == [type |-> t, namespace |-> ns]

-----------------------------------------------------------------------------
(* The filters of the worker.                                              *)

ResourceIdentifiers(t) ==
  {<<t.name>>, <<t.kind>>}
    \cup (IF t.group = CoreGroup THEN {} ELSE {<<t.name, t.group>>, <<t.kind, t.group>>})

DefaultExcludedResources ==
  {<<"events">>, <<"events", "events.k8s.io">>, <<"leases">>, <<"endpoints">>,
   <<"endpointslices">>, <<"bindings">>, <<"replicasets">>,
   <<"controllerrevisions">>, <<"pods">>}

\* Mutant: the user's list takes the place of the default one.
SelectsUserExclusionsOnly(spec, t) ==
  /\ t.listable
  /\ spec.includedResources # {} =>
       ResourceIdentifiers(t) \cap spec.includedResources # {}
  /\ ResourceIdentifiers(t) \cap
       (IF spec.excludedResources = {} THEN DefaultExcludedResources
                                       ELSE spec.excludedResources) = {}

Selects(spec, t) ==
  /\ t.listable
  /\ spec.includedResources # {} =>
       ResourceIdentifiers(t) \cap spec.includedResources # {}
  /\ ResourceIdentifiers(t) \cap
       (spec.excludedResources \cup DefaultExcludedResources) = {}
  /\ ~ShouldSkipKind(t.kind)

IncludesCluster(spec) == spec.kind = "ClusterBackup" /\ spec.includeClusterResources

\* Mutant: excluded namespaces matter only when none are included.
ResolvedNamespacesIncludedWins(spec, listed) ==
  IF spec.kind = "Backup" THEN {spec.namespace}
  ELSE IF spec.included # {} THEN spec.included ELSE listed \ spec.excluded

\* listed: the namespaces of the cluster, which are asked for when none are named.
ResolvedNamespaces(spec, listed) ==
  IF spec.kind = "Backup" THEN {spec.namespace}
  ELSE (IF spec.included # {} THEN spec.included ELSE listed) \ spec.excluded

\* The List calls for these types, in their order.
CallsFor(spec, types, namespaces) ==
  FlattenSeq([i \in 1..Len(types) |->
    IF ~Selects(spec, types[i]) THEN <<>>
    ELSE IF types[i].namespaced
           THEN SetToSeq({Call(types[i], ns) : ns \in namespaces})
    ELSE IF IncludesCluster(spec) THEN <<Call(types[i], NoNamespace)>> ELSE <<>>])

\* A key that is not there has no value, but a nil map matches nothing.
MatchAnnotations(annotations, selector) ==
  \A k \in DOMAIN selector :
    /\ DOMAIN annotations # {}
    /\ selector[k] = (IF k \in DOMAIN annotations THEN annotations[k] ELSE NoValue)

\* The items of a List call that are kept.
Kept(spec, call, cluster) ==
  {o \in cluster : /\ o.kind = call.type.kind /\ o.namespace = call.namespace
                   /\ spec.labels \subseteq o.labels
                   /\ MatchAnnotations(o.annotations, spec.annotations)}

-----------------------------------------------------------------------------
(* Snapshots.                                                              *)

\* selects: the pvcSelector is given, which may be one without a label.
SnapshotsEnabled(spec) ==
  CASE spec.snapshot.enabled = "true" -> TRUE
    [] spec.snapshot.enabled = "false" -> FALSE
    [] OTHER -> spec.snapshot.all \/ spec.snapshot.selects

Claims(spec, ns, cluster) ==
  {o \in cluster : /\ o.kind = "PersistentVolumeClaim" /\ o.namespace = ns
                   /\ spec.snapshot.selector \subseteq o.labels}

FullName(backup, claim, stamp) == backup \o <<"-">> \o claim \o <<"-", stamp>>

SanitizeName(name) ==
  IF Len(name) > MaxNameLength THEN SubSeq(name, 1, MaxNameLength) ELSE name

\* Mutant: the names of snapshots have no timestamp.
SnapshotNameUnstamped(backup, claim, stamp) ==
  SanitizeName(backup \o <<"-">> \o claim)

SnapshotName(backup, claim, stamp) == SanitizeName(FullName(backup, claim, stamp))

-----------------------------------------------------------------------------
(* The scope of a backup for one object at a time, without lists, calls    *)
(* and their order: the fields of BackupSpec (common_types.go:117-145) as  *)
(* the worker takes them.  That is not all that they promise.  An entry    *)
(* "group/resource", which the comment at :131 has for includedResources,  *)
(* is no identifier and names no type.  A selector of annotations, "exact  *)
(* match" at :137, that asks for the empty value also takes objects that   *)
(* have other annotations but not that one.                                *)

Names(entry, t) ==
  \/ entry = <<t.name>> \/ entry = <<t.kind>>
  \/ t.group # CoreGroup /\ entry \in {<<t.name, t.group>>, <<t.kind, t.group>>}

NamespaceInScope(spec, ns) ==
  CASE ns = NoNamespace -> spec.kind = "ClusterBackup" /\ spec.includeClusterResources
    [] ns # NoNamespace /\ spec.kind = "Backup" -> ns = spec.namespace
    [] OTHER -> ns \notin spec.excluded /\ (spec.included = {} \/ ns \in spec.included)

KindInScope(spec, kind) ==
  /\ ~ShouldSkipKind(kind)
  /\ \E t \in Types :
       /\ t.kind = kind /\ t.listable
       /\ spec.includedResources = {} \/ \E e \in spec.includedResources : Names(e, t)
       /\ \A e \in spec.excludedResources \cup DefaultExcludedResources : ~Names(e, t)

AnnotationSelected(o, k, v) ==
  IF k \in DOMAIN o.annotations THEN o.annotations[k] = v
                                ELSE v = NoValue /\ DOMAIN o.annotations # {}

InScope(spec, o) ==
  /\ KindInScope(spec, o.kind) /\ NamespaceInScope(spec, o.namespace)
  /\ spec.labels \subseteq o.labels
  /\ \A k \in DOMAIN spec.annotations : AnnotationSelected(o, k, spec.annotations[k])

================================================================================
