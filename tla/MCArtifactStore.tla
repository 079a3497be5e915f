--------------------------- MODULE MCArtifactStore ---------------------------
(* Two clusters that share an endpoint, a bucket and an NFS server; prefixes *)
(* that look like the beginning of another cluster's paths.                  *)
EXTENDS ArtifactStore, TLC

MCSegments ==
  {"", "backup", "clusterbackup", "cluster", "backup.tar.gz", "data", "east",
   "west", "app", "t1", "t2", "s3a", "s3b", "bk", "b2", "nas", "exp"}

MCClusterId == ("A" :> "east" @@ "B" :> "west")

BackupInClusterNamespace ==
  [kind |-> "backup", namespace |-> "cluster", name |-> "app"]
ClusterBackup == [kind |-> "clusterbackup", namespace |-> "", name |-> "app"]

OneOwner == {BackupInClusterNamespace}
TwoOwners == {BackupInClusterNamespace, ClusterBackup}

S3Spec(host, bucket, path) ==
  [type |-> "s3", host |-> host, bucket |-> bucket, path |-> path]

NfsSpec(path) == [type |-> "nfs", host |-> "nas", bucket |-> "", path |-> path]

\* In one cluster the bucket and the prefix are edited, in the other the type is.
EastPrefix == S3Spec("s3a", "bk", <<"east">>)
MixedSpecs ==
  "A" :> {EastPrefix, S3Spec("s3a", "b2", <<>>)} @@ "B" :> {EastPrefix, NfsSpec(<<"exp">>)}

NfsSpecs == [c \in {"A", "B"} |-> {NfsSpec(<<"exp">>), NfsSpec(<<"exp", "east">>)}]

TwoSeconds == <<"t1", "t2">>
OneSecond == <<"t1">>

PodSymmetry == Permutations(Pods)
=============================================================================
