--------------------------- MODULE MCResourceApply ----------------------------
(* Archives, mappings and workers for the runs of ResourceApply.            *)
EXTENDS ResourceApply

Object(kind, namespace, name) == [kind |-> kind, namespace |-> namespace, name |-> name]

Builtins == {"Namespace", "CustomResourceDefinition", "ConfigMap", "Deployment", "Pod"}

\* In the order of an export.  The Pod is not restored; the ConfigMaps of two
\* namespaces meet in the namespace of the Restore, which the archive has;
\* the Deployment goes to one that it does not have.
Applications ==
  <<Object("Deployment", "app1", "web"), Object("Pod", "app1", "web-0"),
    Object("ConfigMap", "app2", "settings"), Object("ConfigMap", "app3", "settings"),
    Object("Namespace", "", "app2")>>

\* A resource of a kind that the archive defines.
WithDefinition ==
  <<Object("Widget", "app1", "gear"), Object("ConfigMap", "app1", "settings"),
    Object("CustomResourceDefinition", "", "Widget")>>

NoMapping == [ns \in {} |-> ns]
App1Moved == [ns \in {"app1"} |-> "moved"]

OneWorker == {"w1"}
TwoWorkers == {"w1", "w2"}
==============================================================================
