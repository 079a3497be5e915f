---------------------------- MODULE MCBackupExport -----------------------------
(* A cluster with two applications, and backups of parts of it.             *)
EXTENDS BackupExport

Type(group, name, kind, namespaced, listable) ==
  [group |-> group, name |-> name, kind |-> kind, namespaced |-> namespaced,
   listable |-> listable]

MCDiscovery ==
  <<Type("", "bindings", "Binding", TRUE, FALSE),
    Type("", "configmaps", "ConfigMap", TRUE, TRUE),
    Type("", "namespaces", "Namespace", FALSE, TRUE),
    Type("", "persistentvolumeclaims", "PersistentVolumeClaim", TRUE, TRUE),
    Type("", "pods", "Pod", TRUE, TRUE),
    Type("apps", "deployments", "Deployment", TRUE, TRUE)>>

None == [k \in {} |-> ""]

Object(kind, namespace, name, labels, annotations) ==
  [kind |-> kind, namespace |-> namespace, name |-> name, labels |-> labels,
   annotations |-> annotations]

App1 == Object("Namespace", "", <<"app1">>, {}, None)
App2 == Object("Namespace", "", <<"app2">>, {}, None)
Web == Object("Deployment", "app1", <<"web">>, {"prod"}, [k \in {"tier"} |-> "front"])
WebPod == Object("Pod", "app1", <<"web", "0">>, {"prod"}, None)
Settings == Object("ConfigMap", "app1", <<"settings">>, {}, [k \in {"owner"} |-> "team"])
Other == Object("ConfigMap", "app2", <<"settings">>, {"prod"}, [k \in {"owner"} |-> "them"])
Data == Object("PersistentVolumeClaim", "app1", <<"data">>, {"prod"}, None)
\* The name of the first snapshot ends before its timestamp, the second with a dash.
Log0 == Object("PersistentVolumeClaim", "app1", <<"log", "a", "b", "c">>, {}, None)
Log1 == Object("PersistentVolumeClaim", "app1", <<"log", "a", "b">>, {}, None)

MCObjects == {App1, App2, Web, WebPod, Settings, Other, Data, Log0, Log1}
MCInitial == MCObjects \ {Settings}

NoSnapshots == [enabled |-> "false", all |-> FALSE, selects |-> FALSE, selector |-> {}]
AllClaims == [enabled |-> "unset", all |-> TRUE, selects |-> FALSE, selector |-> {}]
SelectedClaims ==
  [enabled |-> "unset", all |-> FALSE, selects |-> TRUE, selector |-> {"prod"}]

BackupOf(ns, export, snapshot) ==
  [kind |-> "Backup", name |-> <<"b">>, namespace |-> ns, included |-> {}, excluded |-> {},
   includeClusterResources |-> FALSE, export |-> export,
   includedResources |-> {}, excludedResources |-> {}, labels |-> {},
   annotations |-> None, snapshot |-> snapshot]

\* All of a namespace; all of its volumes.
Everything == BackupOf("app1", TRUE, NoSnapshots)
Volumes == BackupOf("app1", FALSE, AllClaims)

\* Cluster backups with filters.  The entry "apps/deployments" names no type.
Filtered ==
  [Everything EXCEPT !.kind = "ClusterBackup", !.namespace = "",
     !.excluded = {"app2"}, !.includeClusterResources = TRUE,
     !.excludedResources = {<<"persistentvolumeclaims">>, <<"apps/deployments">>}]
Labelled ==
  [Everything EXCEPT !.kind = "ClusterBackup", !.namespace = "",
     !.included = {"app1", "app2"}, !.excluded = {"app2"}, !.labels = {"prod"},
     !.includedResources = {<<"Deployment", "apps">>, <<"persistentvolumeclaims">>,
                            <<"ConfigMap">>},
     !.snapshot = SelectedClaims]
Annotated ==
  [Everything EXCEPT !.kind = "ClusterBackup", !.namespace = "",
     !.annotations = [k \in {"owner"} |-> "team"],
     !.snapshot = [SelectedClaims EXCEPT !.enabled = "true", !.selector = {}]]

\* An annotation without a value, and a selector of volumes without a label.
Unowned ==
  [Annotated EXCEPT !.annotations = [k \in {"owner"} |-> NoValue],
     !.snapshot = [SelectedClaims EXCEPT !.selector = {}]]

Alone(w, spec) == [x \in {w} |-> spec]
Together(spec) == [w \in Workers |-> spec]

\* One backup of resources, or all the workers for the same volumes.
MCAssignments ==
  {Alone(w, s) : w \in Workers, s \in {Everything, Filtered, Labelled, Annotated, Unowned}}
    \cup {Together(Volumes)}

WorkerSymmetry == Permutations(Workers)

MCStamps == <<"t1", "t2">>
================================================================================
