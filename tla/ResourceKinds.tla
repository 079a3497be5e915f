---------------------------- MODULE ResourceKinds -----------------------------
(* What exports and restores know of the kinds of Kubernetes objects.       *)
EXTENDS Naturals, Sequences, SequencesExt

\* The namespace of an object that belongs to none.
NoNamespace == ""

\* Kinds that are neither exported nor restored.
ShouldSkipKind(kind) ==
  kind \in {"Event", "Lease", "ControllerRevision", "ReplicaSet", "Pod",
            "EndpointSlice", "Endpoints", "Binding"}

\* Kinds in the order they are applied; the others come last.
KindOrder ==
  <<{"Namespace"}, {"CustomResourceDefinition"},
    {"ClusterRole", "ClusterRoleBinding", "Role", "RoleBinding"},
    {"ServiceAccount"}, {"PersistentVolume", "StorageClass", "VolumeSnapshotClass"},
    {"PersistentVolumeClaim"}, {"ConfigMap", "Secret"},
    {"Deployment", "StatefulSet", "DaemonSet", "Job", "CronJob"},
    {"Service", "Ingress", "Route"}>>

LastPriority == Len(KindOrder) + 1

ResourcePriority(kind) ==
  IF \E i \in DOMAIN KindOrder : kind \in KindOrder[i]
    THEN CHOOSE i \in DOMAIN KindOrder : kind \in KindOrder[i]
    ELSE LastPriority

\* The elements of s that pass a test, in their order.
Selected(s, Test(_)) ==
  FlattenSeq([i \in DOMAIN s |-> IF Test(s[i]) THEN <<s[i]>> ELSE <<>>])

\* sort.SliceStable by priority.
ByPriority(documents) ==
  FlattenSeq([i \in 1..LastPriority |->
    Selected(documents, LAMBDA d : ResourcePriority(d.kind) = i)])

===============================================================================
