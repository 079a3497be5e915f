---------------------------- MODULE ArtifactStore ----------------------------
(***************************************************************************)
(* Where artifacts go and where they are looked for.  Workers of several   *)
(* clusters store artifacts in, and load them from, a storage location     *)
(* whose spec may be edited in between.  The status of a backup keeps only *)
(* the URL of its artifact: a restore uses that URL with the spec the      *)
(* location has by then.                                                   *)
(*                                                                         *)
(* A path is a sequence of segments.  A spec of type s3 has an endpoint    *)
(* (host), a bucket and a prefix (path); one of type nfs has a server      *)
(* (host) and an exported path; its bucket is "".                          *)
(***************************************************************************)
EXTENDS Naturals, Sequences, SequencesExt

CONSTANTS
  Segments,     \* names that paths are made of
  Clusters,     \* clusters that share storage
  ClusterId,    \* CLUSTER_ID of each cluster's workers
  Owners,       \* backup objects: [kind, namespace, name]
  SpecsOf,      \* specs that each cluster's storage location may have
  Pods,         \* worker pods, each runs one backup or one restore
  Timestamps    \* timestamps of the clock, in seconds; its length is a bound

Paths == Seq(Segments)

Specs == UNION {SpecsOf[c] : c \in Clusters}

ASSUME SegmentsAssumption ==
  {"", "backup", "clusterbackup", "cluster", "backup.tar.gz", "data"} \subseteq Segments

ASSUME StoreAssumption ==
  /\ ClusterId \in [Clusters -> Segments]
  /\ Owners \subseteq [kind : {"backup", "clusterbackup"}, namespace : Segments,
                       name : Segments]
  /\ Specs \subseteq [type : {"s3", "nfs"}, host : Segments, bucket : Segments,
                      path : Paths]
  /\ Timestamps \in Paths /\ Timestamps # <<>>

\* README.md:51 asks for a CLUSTER_ID of its own for every cluster.
ASSUME ClusterIdAssumption ==
  \A c, d \in Clusters : ClusterId[c] = ClusterId[d] => c = d

ASSUME OwnersAssumption ==
  \A o \in Owners : o.namespace = "" <=> o.kind = "clusterbackup"

VARIABLES
  clock,        \* index of the current second in Timestamps
  spec,         \* spec of the storage location that each cluster's workers use
  pod,          \* what each worker pod is doing
  files,        \* files and S3 objects: [place, content, whole]
  published     \* artifactLocation of each cluster's backup objects

vars == <<clock, spec, pod, files, published>>

NoLocation == [scheme |-> "", authority |-> "", path |-> <<>>]
Locations == [scheme : {"s3", "nfs", ""}, authority : Segments, path : Paths]

NoOwner == [kind |-> "", namespace |-> "", name |-> ""]
NoSpec == [type |-> "", host |-> "", bucket |-> "", path |-> <<>>]
NoContent == [cluster |-> "", owner |-> NoOwner, time |-> ""]

-----------------------------------------------------------------------------
(* Paths.                                                                  *)

NamespaceSegment(ns) == IF ns = "" THEN "cluster" ELSE ns

\* Mutant: the cluster is left out of the path.
RelativePathNoCluster(c, o, t) ==
  <<o.kind, NamespaceSegment(o.namespace), o.name, t, "backup.tar.gz">>

\* Mutant: the kind is left out of the path.
RelativePathNoKind(c, o, t) ==
  <<ClusterId[c], NamespaceSegment(o.namespace), o.name, t, "backup.tar.gz">>

RelativePath(c, o, t) ==
  <<ClusterId[c], o.kind, NamespaceSegment(o.namespace), o.name, t,
    "backup.tar.gz">>

\* The volume mounts of the worker's container.  The container is copied into
\* the pod template before the NFS volume is mounted in it.
ContainerMounts(s) == {}

\* The file system behind NFS_MOUNT_PATH, and where in it a path is.
MountPlace(p, s, rel) ==
  IF "nfs-storage" \in ContainerMounts(s)
    THEN [fs |-> <<"nfs", s.host, "">>, path |-> s.path \o rel]
    ELSE [fs |-> <<"pod", p, "">>, path |-> <<"data">> \o rel]

S3Place(s, bucket, key) == [fs |-> <<"s3", s.host, bucket>>, path |-> key]

StorePlace(p, s, rel) ==
  IF s.type = "s3" THEN S3Place(s, s.bucket, s.path \o rel)
                   ELSE MountPlace(p, s, rel)

\* Mutant: the key is published without the prefix of the location.
LocationNoPrefix(s, rel) ==
  [scheme |-> s.type, authority |-> IF s.type = "s3" THEN s.bucket ELSE s.host,
   path |-> rel]

\* The URL that is published.  It has the bucket or the server, not the endpoint.
Location(s, rel) ==
  [scheme |-> s.type, authority |-> IF s.type = "s3" THEN s.bucket ELSE s.host,
   path |-> s.path \o rel]

\* What is left of the URL's path below the exported path.  The prefix is that
\* of a string; Specs has no exported path that ends inside another's segment.
\* The bucket of an s3 URL, whose scheme is not checked, ends up in the path.
MountRelative(s, location) ==
  IF location.scheme = "nfs"
    THEN IF IsPrefix(s.path, location.path)
           THEN SubSeq(location.path, Len(s.path) + 1, Len(location.path))
           ELSE location.path
    ELSE <<location.authority>> \o location.path

\* Where a restore looks.  The bucket is the URL's, the endpoint the spec's; an
\* nfs URL gives a bucket no server has.
LoadPlace(p, s, location) ==
  IF s.type = "nfs"
    THEN MountPlace(p, s, MountRelative(s, location))
    ELSE S3Place(s, IF location.scheme = "s3" THEN location.authority ELSE "nfs:",
                 location.path)

-----------------------------------------------------------------------------
(* Worker pods.                                                            *)

PodStates == {"new", "exported", "copying", "stored", "published", "failed",
              "loading", "loaded"}

NewPod == [pc |-> "new", cluster |-> "", owner |-> NoOwner, spec |-> NoSpec,
           time |-> "", location |-> NoLocation, got |-> NoContent]

Content(p) == [cluster |-> pod[p].cluster, owner |-> pod[p].owner,
               time |-> pod[p].time]

Rel(p) == RelativePath(pod[p].cluster, pod[p].owner, pod[p].time)

\* os.Create and PutObject replace what is there.
Write(p, whole) ==
  LET place == StorePlace(p, pod[p].spec, Rel(p)) IN
    files' = {f \in files : f.place # place}
               \cup {[place |-> place, content |-> Content(p), whole |-> whole]}

Advance(p, pc) == pod' = [pod EXCEPT ![p].pc = pc]

\* The worker has resolved its storage, taken the timestamp and exported.
StartBackup(p, c, o) ==
  /\ pod[p].pc = "new"
  /\ pod' = [pod EXCEPT ![p].pc = "exported", ![p].cluster = c, ![p].owner = o,
                        ![p].spec = spec[c], ![p].time = Timestamps[clock]]
  /\ UNCHANGED <<clock, spec, files, published>>

\* Mutant: the URL of the artifact is built from the location as it is by now.
UploadLate(p) ==
  /\ pod[p].pc = "exported" /\ pod[p].spec.type = "s3"
  /\ Write(p, TRUE)
  /\ pod' = [pod EXCEPT ![p].pc = "stored",
                        ![p].location = Location(spec[pod[p].cluster], Rel(p))]
  /\ UNCHANGED <<clock, spec, published>>

UploadToS3(p) ==
  /\ pod[p].pc = "exported" /\ pod[p].spec.type = "s3"
  /\ Write(p, TRUE)
  /\ pod' = [pod EXCEPT ![p].pc = "stored",
                        ![p].location = Location(pod[p].spec, Rel(p))]
  /\ UNCHANGED <<clock, spec, published>>

\* copyFile truncates the destination and then fills it.
OpenNfsFile(p) ==
  /\ pod[p].pc = "exported" /\ pod[p].spec.type = "nfs"
  /\ Write(p, FALSE)
  /\ Advance(p, "copying")
  /\ UNCHANGED <<clock, spec, published>>

FillNfsFile(p) ==
  /\ pod[p].pc = "copying"
  /\ Write(p, TRUE)
  /\ pod' = [pod EXCEPT ![p].pc = "stored",
                        ![p].location = Location(pod[p].spec, Rel(p))]
  /\ UNCHANGED <<clock, spec, published>>

\* The worker's report; the status of the object has one location at a time.
Publish(p) ==
  /\ pod[p].pc = "stored"
  /\ published' = [published EXCEPT ![pod[p].cluster][pod[p].owner] =
                     pod[p].location]
  /\ Advance(p, "published")
  /\ UNCHANGED <<clock, spec, files>>

\* An error or a crash at any point leaves what has been written.
Fail(p) ==
  /\ pod[p].pc \in {"exported", "copying", "stored", "loading"}
  /\ Advance(p, "failed")
  /\ UNCHANGED <<clock, spec, files, published>>

\* A restore worker has read the location from the status of its source backup
\* and resolved the storage location.
StartRestore(p, c, o) ==
  /\ pod[p].pc = "new" /\ published[c][o] # NoLocation
  /\ pod' = [pod EXCEPT ![p].pc = "loading", ![p].cluster = c, ![p].owner = o,
                        ![p].spec = spec[c], ![p].location = published[c][o]]
  /\ UNCHANGED <<clock, spec, files, published>>

\* When no file is there the restore fails (Fail).
Load(p) ==
  /\ pod[p].pc = "loading"
  /\ \E f \in files :
       /\ f.place = LoadPlace(p, pod[p].spec, pod[p].location)
       /\ pod' = [pod EXCEPT ![p].pc = "loaded", ![p].got = f.content]
  /\ UNCHANGED <<clock, spec, files, published>>

-----------------------------------------------------------------------------
EditSpec(c) ==
  /\ \E s \in SpecsOf[c] \ {spec[c]} : spec' = [spec EXCEPT ![c] = s]
  /\ UNCHANGED <<clock, pod, files, published>>

Tick ==
  /\ clock < Len(Timestamps)
  /\ clock' = clock + 1
  /\ UNCHANGED <<spec, pod, files, published>>

Init ==
  /\ clock = 1
  /\ spec \in {f \in [Clusters -> Specs] : \A c \in Clusters : f[c] \in SpecsOf[c]}
  /\ pod = [p \in Pods |-> NewPod]
  /\ files = {}
  /\ published = [c \in Clusters |-> [o \in Owners |-> NoLocation]]

PodStep(p) ==
  \/ \E c \in Clusters, o \in Owners : StartBackup(p, c, o) \/ StartRestore(p, c, o)
  \/ UploadToS3(p) \/ OpenNfsFile(p) \/ FillNfsFile(p)
  \/ Publish(p) \/ Fail(p) \/ Load(p)

Next ==
  \/ \E p \in Pods : PodStep(p)
  \/ \E c \in Clusters : EditSpec(c)
  \/ Tick

Spec == Init /\ [][Next]_vars

-----------------------------------------------------------------------------
(* Properties.                                                             *)

\* A restore never gets the artifact of another cluster or another object,
\* whatever prefixes, buckets and exported paths the clusters share and however
\* the storage location was edited since the backup (worker_storage.go).
LoadedIsOwn ==
  \A p \in Pods :
    pod[p].pc = "loaded" =>
      pod[p].got.cluster = pod[p].cluster /\ pod[p].got.owner = pod[p].owner

\* A URL that a worker made for S3 leads back to a complete artifact of its
\* object for as long as the endpoint stays the same, also when bucket and
\* prefix of the location were edited.
S3ReadsBack ==
  \A c \in Clusters, o \in Owners, p, q \in Pods, s \in Specs :
    (/\ pod[p].pc = "published" /\ pod[p].cluster = c /\ pod[p].owner = o
     /\ pod[p].spec.type = "s3" /\ s.type = "s3" /\ s.host = pod[p].spec.host)
      => \E f \in files :
           /\ f.place = LoadPlace(q, s, pod[p].location)
           /\ f.whole /\ f.content = Content(p)

\* An artifact is never overwritten by one of another cluster, another object or
\* another second: a Backup in a namespace called "cluster" and a ClusterBackup of
\* the same name keep apart, and so do runs of different seconds for one object
\* (storeArtifact).  Two Jobs of one object that read the clock in one second have
\* one path, and content that is the same here: that is BackupSystem's to tell.
ArtifactsKept ==
  [][\A f \in files : \E g \in files' :
       g.place = f.place /\ g.content = f.content]_vars

\* README.md:5-6: "storage in S3-compatible object stores or NFS".  An artifact
\* published for an NFS location can be read by some other pod that uses it.
NfsIsShared ==
  \A p, q \in Pods :
    (/\ pod[p].pc = "published" /\ pod[p].spec.type = "nfs"
     /\ pod[q].pc = "loading" /\ pod[q].location = pod[p].location
     /\ pod[q].spec = pod[p].spec)
      => \E f \in files : f.place = LoadPlace(q, pod[q].spec, pod[q].location)

=============================================================================
