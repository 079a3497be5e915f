------------------------- MODULE ArtifactStoreProofs -------------------------
(* A restore only ever gets an artifact of its own cluster and object.       *)
EXTENDS ArtifactStore, SequenceTheorems, TLAPS

\* The path ends with what RelativePath makes for an object of a cluster.
OwnedPath(path, c, o) ==
  /\ path \in Paths /\ Len(path) >= 6
  /\ path[Len(path) - 5] = ClusterId[c]
  /\ path[Len(path) - 4] = o.kind
  /\ path[Len(path) - 3] = NamespaceSegment(o.namespace)
  /\ path[Len(path) - 2] = o.name

TimeOf(path) == path[Len(path) - 1]

PodRecords ==
  [pc : PodStates, cluster : Clusters \cup {""}, owner : Owners \cup {NoOwner},
   spec : Specs \cup {NoSpec}, time : Segments, location : Locations,
   got : [cluster : Clusters \cup {""}, owner : Owners \cup {NoOwner},
          time : Segments]]

StateTyped ==
  /\ clock \in 1..Len(Timestamps)
  /\ spec \in [Clusters -> Specs]
  /\ pod \in [Pods -> PodRecords]
  /\ published \in [Clusters -> [Owners -> Locations]]

\* A pod that runs has what it needs for its paths.
PodsEquipped ==
  \A p \in Pods : pod[p].pc # "new" =>
    /\ pod[p].cluster \in Clusters /\ pod[p].owner \in Owners
    /\ pod[p].spec \in Specs

\* Every file is where the path of the object it is made of says.
FilesOwned ==
  \A f \in files :
    /\ f.content \in [cluster : Clusters, owner : Owners, time : Segments]
    /\ OwnedPath(f.place.path, f.content.cluster, f.content.owner)
    /\ TimeOf(f.place.path) = f.content.time

\* A pod that has written nothing has an empty file system of its own.
PodFilesWritten ==
  \A p \in Pods : pod[p].pc \in {"new", "exported", "loading", "loaded"} =>
    \A f \in files : f.place.fs # <<"pod", p, "">>

\* Every location that is kept belongs to the object it is kept for.
LocationsOwned ==
  /\ \A p \in Pods : pod[p].pc \in {"stored", "loading"} =>
       OwnedPath(pod[p].location.path, pod[p].cluster, pod[p].owner)
  /\ \A c \in Clusters, o \in Owners : published[c][o] # NoLocation =>
       OwnedPath(published[c][o].path, c, o)

IInv ==
  /\ StateTyped /\ PodsEquipped /\ FilesOwned /\ PodFilesWritten
  /\ LocationsOwned /\ LoadedIsOwn

-----------------------------------------------------------------------------
(* Paths.                                                                  *)

\* Appending the relative path of an object gives a path of that object.
LEMMA AppendedOwned ==
  ASSUME NEW c \in Clusters, NEW o \in Owners, NEW t \in Segments, NEW s \in Paths
  PROVE  /\ OwnedPath(s \o RelativePath(c, o, t), c, o)
         /\ TimeOf(s \o RelativePath(c, o, t)) = t
<1> DEFINE rel == RelativePath(c, o, t)
<1>1. /\ ClusterId[c] \in Segments /\ o.kind \in Segments /\ o.name \in Segments
      /\ NamespaceSegment(o.namespace) \in Segments /\ "backup.tar.gz" \in Segments
  BY StoreAssumption, SegmentsAssumption DEF NamespaceSegment
<1>2. /\ rel \in Paths /\ Len(rel) = 6
      /\ rel[1] = ClusterId[c] /\ rel[2] = o.kind
      /\ rel[3] = NamespaceSegment(o.namespace) /\ rel[4] = o.name
      /\ rel[5] = t
  BY <1>1 DEF RelativePath, Paths
<1> HIDE DEF rel
<1>3. Len(s) \in Nat
  BY DEF Paths
<1>4. /\ s \o rel \in Paths /\ Len(s \o rel) = Len(s) + 6
      /\ (s \o rel)[Len(s) + 1] = rel[1] /\ (s \o rel)[Len(s) + 2] = rel[2]
      /\ (s \o rel)[Len(s) + 3] = rel[3] /\ (s \o rel)[Len(s) + 4] = rel[4]
      /\ (s \o rel)[Len(s) + 5] = rel[5]
<2>1. /\ s \o rel \in Seq(Segments) /\ Len(s \o rel) = Len(s) + Len(rel)
        /\ \A i \in 1..(Len(s) + Len(rel)) :
             (s \o rel)[i] = IF i <= Len(s) THEN s[i] ELSE rel[i - Len(s)]
    BY <1>2, ConcatProperties DEF Paths
  <2>2. \A k \in 1..6 : (s \o rel)[Len(s) + k] = rel[k]
    <3> TAKE k \in 1..6
    <3>1. Len(s) + k \in 1..(Len(s) + Len(rel)) /\ ~(Len(s) + k <= Len(s))
          /\ (Len(s) + k) - Len(s) = k
      BY <1>2, <1>3
    <3> QED
      BY <2>1, <3>1
  <2> QED
    BY <1>2, <2>1, <2>2 DEF Paths
<1>5. /\ Len(s \o rel) - 5 = Len(s) + 1 /\ Len(s \o rel) - 4 = Len(s) + 2
      /\ Len(s \o rel) - 3 = Len(s) + 3 /\ Len(s \o rel) - 2 = Len(s) + 4
      /\ Len(s \o rel) - 1 = Len(s) + 5
      /\ Len(s \o rel) >= 6
  BY <1>3, <1>4
<1>6. OwnedPath(s \o rel, c, o) /\ TimeOf(s \o rel) = t
  BY <1>2, <1>4, <1>5 DEF OwnedPath, TimeOf
<1> QED
  BY <1>6 DEF rel

\* A path belongs to one object of one cluster only.
LEMMA OwnedUnique ==
  ASSUME NEW path, NEW c \in Clusters, NEW o \in Owners,
         NEW d \in Clusters, NEW u \in Owners,
         OwnedPath(path, c, o), OwnedPath(path, d, u)
  PROVE  c = d /\ o = u
<1>1. ClusterId[c] = ClusterId[d] /\ o.kind = u.kind /\ o.name = u.name
      /\ NamespaceSegment(o.namespace) = NamespaceSegment(u.namespace)
  BY DEF OwnedPath
<1>2. o.namespace = u.namespace
  BY <1>1, OwnersAssumption DEF NamespaceSegment
<1>3. o = u
  BY <1>1, <1>2, StoreAssumption
<1> QED
  BY <1>1, <1>3, ClusterIdAssumption

\* What a worker writes, and the location it publishes, belong to its object.
LEMMA StoredOwned ==
  ASSUME NEW c \in Clusters, NEW o \in Owners, NEW t \in Segments,
         NEW s \in Specs, NEW p
  PROVE  /\ OwnedPath(StorePlace(p, s, RelativePath(c, o, t)).path, c, o)
         /\ TimeOf(StorePlace(p, s, RelativePath(c, o, t)).path) = t
         /\ OwnedPath(Location(s, RelativePath(c, o, t)).path, c, o)
         /\ Location(s, RelativePath(c, o, t)) \in Locations
<1>1. s.path \in Paths /\ s.type \in {"s3", "nfs"}
      /\ s.bucket \in Segments /\ s.host \in Segments
  BY StoreAssumption
<1>2. <<"data">> \in Paths
  <2>1. "data" \in Segments
    BY SegmentsAssumption
  <2> QED
    BY <2>1 DEF Paths
<1>3. OwnedPath(s.path \o RelativePath(c, o, t), c, o)
      /\ TimeOf(s.path \o RelativePath(c, o, t)) = t
  BY <1>1, AppendedOwned
<1>4. OwnedPath(<<"data">> \o RelativePath(c, o, t), c, o)
      /\ TimeOf(<<"data">> \o RelativePath(c, o, t)) = t
  BY <1>2, AppendedOwned
<1>5. StorePlace(p, s, RelativePath(c, o, t)).path \in
        {s.path \o RelativePath(c, o, t), <<"data">> \o RelativePath(c, o, t)}
  BY DEF StorePlace, S3Place, MountPlace, ContainerMounts
<1>6. Location(s, RelativePath(c, o, t)).path = s.path \o RelativePath(c, o, t)
  BY DEF Location
<1>7. Location(s, RelativePath(c, o, t)) \in Locations
  BY <1>1, <1>3 DEF Location, Locations, OwnedPath
<1> QED
  BY <1>3, <1>4, <1>5, <1>6, <1>7

\* With a spec of type nfs a pod reads its own file system; with one of type s3
\* it reads the key of the URL.
LEMMA LoadPlaces ==
  ASSUME NEW p \in Pods, NEW s \in Specs, NEW l \in Locations
  PROVE  /\ s.type = "nfs" => LoadPlace(p, s, l).fs = <<"pod", p, "">>
         /\ s.type # "nfs" => LoadPlace(p, s, l).path = l.path
  BY DEF LoadPlace, MountPlace, ContainerMounts, S3Place

-----------------------------------------------------------------------------
(* The invariant.                                                          *)

LEMMA InitInvariant == Init => IInv
<1> SUFFICES ASSUME Init PROVE IInv
  OBVIOUS
<1>1. Len(Timestamps) >= 1 /\ Len(Timestamps) \in Nat
  BY StoreAssumption DEF Paths
<1>2. NoLocation \in Locations /\ NewPod \in PodRecords
  <2>1. "" \in Segments
    BY SegmentsAssumption
  <2>2. <<>> \in Paths
    BY DEF Paths
  <2>3. NoLocation \in Locations
    BY <2>1, <2>2 DEF NoLocation, Locations
  <2> QED
    BY <2>1, <2>3 DEF NewPod, PodRecords, PodStates, NoContent
<1>3. StateTyped
  BY <1>1, <1>2 DEF Init, StateTyped
<1> QED
  BY <1>3 DEF Init, IInv, PodsEquipped, FilesOwned, PodFilesWritten,
     LocationsOwned, LoadedIsOwn, NewPod

\* The instants of the clock are segments.
LEMMA TimeTyped == StateTyped => Timestamps[clock] \in Segments
  BY StoreAssumption DEF StateTyped, Paths

\* What a step has to keep if it changes one pod only and writes no file.
LEMMA OnePod ==
  ASSUME IInv, NEW p \in Pods, NEW r \in PodRecords,
         pod' = [pod EXCEPT ![p] = r],
         r.pc # "new",
         r.cluster \in Clusters, r.owner \in Owners, r.spec \in Specs,
         r.pc \in {"exported", "loading", "loaded"} =>
           pod[p].pc \in {"new", "exported", "loading", "loaded"},
         r.pc \in {"stored", "loading"} =>
           OwnedPath(r.location.path, r.cluster, r.owner),
         r.pc = "loaded" => r.got.cluster = r.cluster /\ r.got.owner = r.owner,
         UNCHANGED <<clock, spec, files, published>>
  PROVE  IInv'
<1> USE DEF IInv
<1>1. StateTyped'
  BY DEF StateTyped
<1>2. \A q \in Pods : pod'[q] = IF q = p THEN r ELSE pod[q]
  BY DEF StateTyped
<1>3. PodsEquipped'
  BY <1>2 DEF PodsEquipped
<1>4. FilesOwned'
  BY DEF FilesOwned
<1>5. PodFilesWritten'
  BY <1>2 DEF PodFilesWritten
<1>6. LocationsOwned'
  BY <1>2 DEF LocationsOwned
<1>7. LoadedIsOwn'
  BY <1>2 DEF LoadedIsOwn
<1> QED
  BY <1>1, <1>3, <1>4, <1>5, <1>6, <1>7

\* The only file a step may add is that of the backup which the pod runs.
AddsFile(p) ==
  \A f \in files' : f \in files \/
    /\ f.place = StorePlace(p, pod[p].spec, Rel(p)) /\ f.content = Content(p)

LEMMA WriteAddsFile ==
  ASSUME NEW p \in Pods
  PROVE  (Write(p, TRUE) => AddsFile(p)) /\ (Write(p, FALSE) => AddsFile(p))
  BY DEF Write, AddsFile

\* What a step has to keep if a pod that runs its backup writes its file.
LEMMA OneWrite ==
  ASSUME IInv, NEW p \in Pods, NEW r \in PodRecords,
         pod[p].pc \in {"exported", "copying"}, AddsFile(p),
         pod' = [pod EXCEPT ![p] = r],
         r.pc \in {"copying", "stored"},
         r.cluster = pod[p].cluster, r.owner = pod[p].owner, r.spec = pod[p].spec,
         r.pc = "stored" => OwnedPath(r.location.path, r.cluster, r.owner),
         UNCHANGED <<clock, spec, published>>
  PROVE  IInv'
<1> USE DEF IInv
<1>1. StateTyped'
  BY DEF StateTyped
<1>2. \A q \in Pods : pod'[q] = IF q = p THEN r ELSE pod[q]
  BY DEF StateTyped
<1>3. /\ pod[p].cluster \in Clusters /\ pod[p].owner \in Owners
      /\ pod[p].spec \in Specs /\ pod[p].time \in Segments
  BY DEF PodsEquipped, StateTyped, PodRecords
<1>4. PodsEquipped'
  BY <1>2, <1>3 DEF PodsEquipped
<1> DEFINE place == StorePlace(p, pod[p].spec, Rel(p))
<1>5. OwnedPath(place.path, pod[p].cluster, pod[p].owner)
      /\ TimeOf(place.path) = pod[p].time
  BY <1>3, StoredOwned DEF Rel
<1>6. \A q \in Pods : q # p => place.fs # <<"pod", q, "">>
  BY DEF StorePlace, S3Place, MountPlace, ContainerMounts
<1>7. Content(p) \in [cluster : Clusters, owner : Owners, time : Segments]
      /\ Content(p).cluster = pod[p].cluster /\ Content(p).owner = pod[p].owner
      /\ Content(p).time = pod[p].time
  BY <1>3 DEF Content
<1> HIDE DEF place
<1>8. FilesOwned'
  BY <1>5, <1>7 DEF FilesOwned, AddsFile, place
<1>9. PodFilesWritten'
  BY <1>2, <1>6 DEF PodFilesWritten, AddsFile, place
<1>10. LocationsOwned'
  BY <1>2 DEF LocationsOwned
<1>11. LoadedIsOwn'
  BY <1>2 DEF LoadedIsOwn
<1> QED
  BY <1>1, <1>4, <1>8, <1>9, <1>10, <1>11

\* A pod that loads gets the artifact of its own object.
LEMMA LoadKeeps ==
  ASSUME IInv, NEW p \in Pods, Load(p)
  PROVE  IInv'
<1>1. PICK f \in files :
        /\ f.place = LoadPlace(p, pod[p].spec, pod[p].location)
        /\ pod' = [pod EXCEPT ![p].pc = "loaded", ![p].got = f.content]
  BY DEF Load
<1> DEFINE r == [pod[p] EXCEPT !.pc = "loaded", !.got = f.content]
<1>2. pod[p].pc = "loading" /\ pod[p] \in PodRecords
      /\ UNCHANGED <<clock, spec, files, published>>
  BY DEF IInv, StateTyped, Load
<1>3. /\ pod[p].cluster \in Clusters /\ pod[p].owner \in Owners
      /\ pod[p].spec \in Specs
      /\ OwnedPath(pod[p].location.path, pod[p].cluster, pod[p].owner)
  BY <1>2 DEF IInv, PodsEquipped, LocationsOwned
<1>4. f.content \in [cluster : Clusters, owner : Owners, time : Segments]
      /\ OwnedPath(f.place.path, f.content.cluster, f.content.owner)
  BY DEF IInv, FilesOwned
<1>5. f.place.fs # <<"pod", p, "">>
  BY <1>2 DEF IInv, PodFilesWritten
<1>6. f.place.path = pod[p].location.path
  <2>1. pod[p].location \in Locations
    BY <1>2 DEF PodRecords
  <2>2. pod[p].spec.type # "nfs"
    BY <1>1, <1>3, <1>5, <2>1, LoadPlaces
  <2> QED
    BY <1>1, <1>3, <2>1, <2>2, LoadPlaces
<1>7. f.content.cluster = pod[p].cluster /\ f.content.owner = pod[p].owner
  BY <1>3, <1>4, <1>6, OwnedUnique
<1>8. r \in PodRecords /\ pod' = [pod EXCEPT ![p] = r]
  BY <1>1, <1>2, <1>4 DEF PodRecords, PodStates, IInv, StateTyped
<1>9. /\ r.pc = "loaded" /\ r.cluster = pod[p].cluster /\ r.owner = pod[p].owner
      /\ r.spec = pod[p].spec /\ r.got = f.content
  BY <1>2 DEF PodRecords
<1> HIDE DEF r
<1> QED
  BY <1>2, <1>3, <1>7, <1>8, <1>9, OnePod

\* Nor do the other steps of a pod break the invariant.
LEMMA StartBackupKeeps ==
  ASSUME IInv, NEW p \in Pods, NEW c \in Clusters, NEW o \in Owners,
         StartBackup(p, c, o)
  PROVE  IInv'
<1> DEFINE r == [pod[p] EXCEPT !.pc = "exported", !.cluster = c, !.owner = o,
                               !.spec = spec[c], !.time = Timestamps[clock]]
<1>1. /\ pod[p].pc = "new" /\ pod[p] \in PodRecords /\ spec[c] \in Specs
      /\ UNCHANGED <<clock, spec, files, published>>
      /\ Timestamps[clock] \in Segments
  BY TimeTyped DEF IInv, StateTyped, StartBackup
<1>2. r \in PodRecords /\ pod' = [pod EXCEPT ![p] = r]
  BY <1>1 DEF PodRecords, PodStates, IInv, StateTyped, StartBackup
<1>3. r.pc = "exported" /\ r.cluster = c /\ r.owner = o /\ r.spec = spec[c]
  BY <1>1 DEF PodRecords
<1> HIDE DEF r
<1> QED
  BY <1>1, <1>2, <1>3, OnePod

LEMMA StartRestoreKeeps ==
  ASSUME IInv, NEW p \in Pods, NEW c \in Clusters, NEW o \in Owners,
         StartRestore(p, c, o)
  PROVE  IInv'
<1> DEFINE r == [pod[p] EXCEPT !.pc = "loading", !.cluster = c, !.owner = o,
                               !.spec = spec[c], !.location = published[c][o]]
<1>1. /\ pod[p].pc = "new" /\ pod[p] \in PodRecords /\ spec[c] \in Specs
      /\ published[c][o] \in Locations
      /\ UNCHANGED <<clock, spec, files, published>>
  BY DEF IInv, StateTyped, StartRestore
<1>2. OwnedPath(published[c][o].path, c, o)
  BY DEF IInv, LocationsOwned, StartRestore
<1>3. r \in PodRecords /\ pod' = [pod EXCEPT ![p] = r]
  BY <1>1 DEF PodRecords, PodStates, IInv, StateTyped, StartRestore
<1>4. /\ r.pc = "loading" /\ r.cluster = c /\ r.owner = o /\ r.spec = spec[c]
      /\ r.location = published[c][o]
  BY <1>1 DEF PodRecords
<1> HIDE DEF r
<1> QED
  BY <1>1, <1>2, <1>3, <1>4, OnePod

LEMMA StoreKeeps ==
  ASSUME IInv, NEW p \in Pods, UploadToS3(p) \/ FillNfsFile(p)
  PROVE  IInv'
<1> DEFINE l == Location(pod[p].spec, Rel(p))
           r == [pod[p] EXCEPT !.pc = "stored", !.location = l]
<1>1. /\ pod[p].pc \in {"exported", "copying"} /\ pod[p] \in PodRecords
      /\ AddsFile(p) /\ UNCHANGED <<clock, spec, published>>
      /\ pod' = [pod EXCEPT ![p].pc = "stored", ![p].location = l]
  BY WriteAddsFile DEF IInv, StateTyped, UploadToS3, FillNfsFile
<1>2. /\ pod[p].cluster \in Clusters /\ pod[p].owner \in Owners
      /\ pod[p].spec \in Specs /\ pod[p].time \in Segments
  BY <1>1 DEF IInv, PodsEquipped, PodRecords
<1>3. l \in Locations /\ OwnedPath(l.path, pod[p].cluster, pod[p].owner)
  BY <1>2, StoredOwned DEF Rel
<1> HIDE DEF l
<1>4. r \in PodRecords /\ pod' = [pod EXCEPT ![p] = r]
  BY <1>1, <1>3 DEF PodRecords, PodStates, IInv, StateTyped
<1>5. /\ r.pc = "stored" /\ r.cluster = pod[p].cluster /\ r.owner = pod[p].owner
      /\ r.spec = pod[p].spec /\ r.location = l
  BY <1>1 DEF PodRecords
<1> HIDE DEF r
<1> QED
  BY <1>1, <1>3, <1>4, <1>5, OneWrite

LEMMA OpenKeeps ==
  ASSUME IInv, NEW p \in Pods, OpenNfsFile(p)
  PROVE  IInv'
<1> DEFINE r == [pod[p] EXCEPT !.pc = "copying"]
<1>1. /\ pod[p].pc = "exported" /\ pod[p] \in PodRecords /\ AddsFile(p)
      /\ UNCHANGED <<clock, spec, published>>
      /\ pod' = [pod EXCEPT ![p].pc = "copying"]
  BY WriteAddsFile DEF IInv, StateTyped, OpenNfsFile, Advance
<1>2. r \in PodRecords /\ pod' = [pod EXCEPT ![p] = r]
  BY <1>1 DEF PodRecords, PodStates, IInv, StateTyped
<1>3. /\ r.pc = "copying" /\ r.cluster = pod[p].cluster /\ r.owner = pod[p].owner
      /\ r.spec = pod[p].spec
  BY <1>1 DEF PodRecords
<1> HIDE DEF r
<1> QED
  BY <1>1, <1>2, <1>3, OneWrite

LEMMA FailKeeps ==
  ASSUME IInv, NEW p \in Pods, Fail(p)
  PROVE  IInv'
<1> DEFINE r == [pod[p] EXCEPT !.pc = "failed"]
<1>1. /\ pod[p].pc # "new" /\ pod[p] \in PodRecords
      /\ UNCHANGED <<clock, spec, files, published>>
      /\ pod' = [pod EXCEPT ![p].pc = "failed"]
  BY DEF IInv, StateTyped, Fail, Advance
<1>2. r \in PodRecords /\ pod' = [pod EXCEPT ![p] = r]
  BY <1>1 DEF PodRecords, PodStates, IInv, StateTyped
<1>3. /\ r.pc = "failed" /\ r.cluster = pod[p].cluster /\ r.owner = pod[p].owner
      /\ r.spec = pod[p].spec
  BY <1>1 DEF PodRecords
<1>4. /\ pod[p].cluster \in Clusters /\ pod[p].owner \in Owners
      /\ pod[p].spec \in Specs
  BY <1>1 DEF IInv, PodsEquipped
<1> HIDE DEF r
<1> QED
  BY <1>1, <1>2, <1>3, <1>4, OnePod

LEMMA PublishedRecord ==
  ASSUME NEW q \in PodRecords
  PROVE  LET r == [q EXCEPT !.pc = "published"] IN
         /\ r \in PodRecords /\ r.pc = "published"
         /\ r.cluster = q.cluster /\ r.owner = q.owner /\ r.spec = q.spec
  BY DEF PodRecords, PodStates

\* The report puts the pod's location into the status of the pod's object.
LEMMA PublishKeeps ==
  ASSUME IInv, NEW p \in Pods, Publish(p)
  PROVE  IInv'
<1> USE DEF IInv
<1> DEFINE d == pod[p].cluster
           u == pod[p].owner
<1>1. /\ pod[p].pc = "stored" /\ pod[p] \in PodRecords
      /\ UNCHANGED <<clock, spec, files>>
      /\ pod' = [pod EXCEPT ![p].pc = "published"]
      /\ published' = [published EXCEPT ![d][u] = pod[p].location]
  BY DEF StateTyped, Publish, Advance
<1>2. /\ d \in Clusters /\ u \in Owners /\ pod[p].location \in Locations
      /\ OwnedPath(pod[p].location.path, d, u)
  BY <1>1 DEF PodsEquipped, LocationsOwned, PodRecords
<1>3. /\ \A q \in Pods : q # p => pod'[q] = pod[q]
      /\ pod'[p] = [pod[p] EXCEPT !.pc = "published"]
  BY <1>1 DEF StateTyped
<1>4. \A c \in Clusters, o \in Owners : published'[c][o] =
        IF c = d /\ o = u THEN pod[p].location ELSE published[c][o]
  BY <1>1, <1>2 DEF StateTyped
<1>5. /\ pod'[p].pc = "published" /\ pod'[p].cluster = d /\ pod'[p].owner = u
      /\ pod'[p].spec = pod[p].spec /\ pod'[p] \in PodRecords
  BY <1>1, <1>3, PublishedRecord
<1>6. StateTyped'
  BY <1>1, <1>2, <1>5 DEF StateTyped
<1>7. PodsEquipped'
  BY <1>1, <1>2, <1>3, <1>5 DEF PodsEquipped
<1>8. FilesOwned' /\ PodFilesWritten'
  BY <1>1, <1>3, <1>5 DEF FilesOwned, PodFilesWritten
<1>9. LocationsOwned'
  <2>1. ASSUME NEW q \in Pods, pod'[q].pc \in {"stored", "loading"}
        PROVE  OwnedPath(pod'[q].location.path, pod'[q].cluster, pod'[q].owner)
    <3>1. q # p
      BY <1>5, <2>1
    <3> QED
      BY <1>3, <2>1, <3>1 DEF LocationsOwned
  <2>2. ASSUME NEW c \in Clusters, NEW o \in Owners, published'[c][o] # NoLocation
        PROVE  OwnedPath(published'[c][o].path, c, o)
    <3>1. CASE c = d /\ o = u
      BY <1>2, <1>4, <3>1
    <3>2. CASE ~(c = d /\ o = u)
      BY <1>4, <2>2, <3>2 DEF LocationsOwned
    <3> QED
      BY <3>1, <3>2
  <2> QED
    BY <2>1, <2>2 DEF LocationsOwned
<1>10. LoadedIsOwn'
  BY <1>3, <1>5 DEF LoadedIsOwn
<1> QED
  BY <1>6, <1>7, <1>8, <1>9, <1>10

LEMMA NextInvariant == IInv /\ [Next]_vars => IInv'
<1> SUFFICES ASSUME IInv, [Next]_vars PROVE IInv'
  OBVIOUS
<1>1. ASSUME NEW p \in Pods, PodStep(p) PROVE IInv'
  BY <1>1, StartBackupKeeps, StartRestoreKeeps, StoreKeeps, OpenKeeps,
     PublishKeeps, FailKeeps, LoadKeeps DEF PodStep
<1>2. ASSUME NEW c \in Clusters, EditSpec(c) PROVE IInv'
  <2>1. PICK s \in Specs : spec' = [spec EXCEPT ![c] = s]
    BY <1>2 DEF EditSpec, Specs
  <2>2. UNCHANGED <<clock, pod, files, published>>
    BY <1>2 DEF EditSpec
  <2> QED
    BY <2>1, <2>2 DEF IInv, StateTyped, PodsEquipped, FilesOwned,
       PodFilesWritten, LocationsOwned, LoadedIsOwn
<1>3. ASSUME Tick PROVE IInv'
  <2>1. clock' \in 1..Len(Timestamps)
    BY <1>3, StoreAssumption DEF Tick, IInv, StateTyped, Paths
  <2> QED
    BY <1>3, <2>1 DEF Tick, IInv, StateTyped, PodsEquipped, FilesOwned,
       PodFilesWritten, LocationsOwned, LoadedIsOwn
<1>4. ASSUME UNCHANGED vars PROVE IInv'
  BY <1>4 DEF vars, IInv, StateTyped, PodsEquipped, FilesOwned,
     PodFilesWritten, LocationsOwned, LoadedIsOwn
<1> QED
  BY <1>1, <1>2, <1>3, <1>4 DEF Next

\* A restore gets its own cluster's artifact of its own object, for any number
\* of clusters, objects, storage locations, edits and workers.
THEOREM LoadsOwnArtifact == Spec => []LoadedIsOwn
<1>1. IInv => LoadedIsOwn
  BY DEF IInv
<1> QED
  BY <1>1, InitInvariant, NextInvariant, PTL DEF Spec

\* Whatever a pod writes over is an artifact of its own object and second.
LEMMA WriteKeeps ==
  ASSUME IInv, NEW p \in Pods, pod[p].pc \in {"exported", "copying"},
         Write(p, TRUE) \/ Write(p, FALSE), NEW f \in files
  PROVE  \E g \in files' : g.place = f.place /\ g.content = f.content
<1> DEFINE place == StorePlace(p, pod[p].spec, Rel(p))
<1>1. CASE f.place # place
  <2>1. f \in files'
    BY <1>1 DEF Write
  <2> QED
    BY <2>1
<1>2. CASE f.place = place
  <2>1. /\ pod[p].cluster \in Clusters /\ pod[p].owner \in Owners
        /\ pod[p].spec \in Specs /\ pod[p].time \in Segments
    BY DEF IInv, PodsEquipped, StateTyped, PodRecords
  <2>2. OwnedPath(place.path, pod[p].cluster, pod[p].owner)
        /\ TimeOf(place.path) = pod[p].time
    BY <2>1, StoredOwned DEF Rel
  <2>3. /\ f.content \in [cluster : Clusters, owner : Owners, time : Segments]
        /\ OwnedPath(f.place.path, f.content.cluster, f.content.owner)
        /\ TimeOf(f.place.path) = f.content.time
    BY DEF IInv, FilesOwned
  <2>4. f.content.cluster = pod[p].cluster /\ f.content.owner = pod[p].owner
        /\ f.content.time = pod[p].time
    BY <1>2, <2>1, <2>2, <2>3, OwnedUnique
  <2>5. f.content = Content(p)
    BY <2>3, <2>4 DEF Content
  <2>6. \/ [place |-> place, content |-> Content(p), whole |-> TRUE] \in files'
        \/ [place |-> place, content |-> Content(p), whole |-> FALSE] \in files'
    BY DEF Write
  <2> QED
    BY <1>2, <2>5, <2>6
<1> QED
  BY <1>1, <1>2

LEMMA StepKeepsArtifacts ==
  IInv /\ [Next]_vars =>
    [\A f \in files : \E g \in files' :
       g.place = f.place /\ g.content = f.content]_vars
<1> SUFFICES ASSUME IInv, Next, NEW f \in files
             PROVE  \E g \in files' : g.place = f.place /\ g.content = f.content
  OBVIOUS
<1>1. ASSUME NEW p \in Pods, UploadToS3(p) \/ OpenNfsFile(p) \/ FillNfsFile(p)
      PROVE  \E g \in files' : g.place = f.place /\ g.content = f.content
  <2>1. pod[p].pc \in {"exported", "copying"} /\ (Write(p, TRUE) \/ Write(p, FALSE))
    BY <1>1 DEF UploadToS3, OpenNfsFile, FillNfsFile
  <2> QED
    BY <2>1, WriteKeeps
<1>2. CASE UNCHANGED files
  BY <1>2
<1>3. ASSUME NEW p \in Pods, PodStep(p)
      PROVE  UploadToS3(p) \/ OpenNfsFile(p) \/ FillNfsFile(p) \/ UNCHANGED files
  <2>1. ASSUME NEW c \in Clusters, NEW o \in Owners,
               StartBackup(p, c, o) \/ StartRestore(p, c, o)
        PROVE  UNCHANGED files
    BY <2>1 DEF StartBackup, StartRestore
  <2>2. Publish(p) \/ Fail(p) \/ Load(p) => UNCHANGED files
    BY DEF Publish, Fail, Load
  <2> QED
    BY <1>3, <2>1, <2>2 DEF PodStep
<1>4. ASSUME (\E c \in Clusters : EditSpec(c)) \/ Tick PROVE UNCHANGED files
  BY <1>4 DEF EditSpec, Tick
<1> QED
  BY <1>1, <1>2, <1>3, <1>4 DEF Next

\* No artifact is overwritten by one of another cluster, object or second, for
\* any number of them and any edits of the storage locations.
THEOREM KeepsArtifacts == Spec => ArtifactsKept
<1> QED
  BY InitInvariant, NextInvariant, StepKeepsArtifacts, PTL DEF Spec, ArtifactsKept


-----------------------------------------------------------------------------
(* Artifacts in S3.                                                        *)

RelOf(r) == RelativePath(r.cluster, r.owner, r.time)

ContentOf(r) == [cluster |-> r.cluster, owner |-> r.owner, time |-> r.time]

\* The S3 object a pod writes: it does not depend on the pod.
S3Key(r) == S3Place(r.spec, r.spec.bucket, r.spec.path \o RelOf(r))

\* A pod that has stored its artifact in S3 has its URL, and the artifact is there.
Back(r, fs) ==
  /\ r.pc = "copying" => r.spec.type = "nfs"
  /\ r.pc \in {"stored", "published"} /\ r.spec.type = "s3" =>
       /\ r.location = Location(r.spec, RelOf(r))
       /\ \E f \in fs : f.place = S3Key(r) /\ f.whole = TRUE /\ f.content = ContentOf(r)

ArtifactsBack == \A p \in Pods : \A r \in {pod[p]}, fs \in {files} : Back(r, fs)

\* What is complete in S3 stays so: only a file on NFS is ever truncated.
LEMMA S3Stays ==
  ASSUME IInv, NEW p \in Pods,
         pod[p].pc \in {"exported", "copying"},
         Write(p, TRUE) \/ (pod[p].spec.type = "nfs" /\ Write(p, FALSE)),
         NEW f \in files, NEW host, NEW bucket, f.place.fs = <<"s3", host, bucket>>,
         f.whole = TRUE
  PROVE  \E g \in files' : g.place = f.place /\ g.content = f.content /\ g.whole = TRUE
<1> DEFINE place == StorePlace(p, pod[p].spec, Rel(p))
<1>1. CASE f.place # place
  <2>1. f \in files'
    BY <1>1 DEF Write
  <2> QED
    BY <2>1
<1>2. CASE f.place = place
  <2>1. PICK g \in files' : g.place = f.place /\ g.content = f.content
    BY WriteKeeps
  <2>2. pod[p].spec.type # "nfs"
    <3>1. <<"pod", p, "">> # <<"s3", host, bucket>>
      OBVIOUS
    <3>2. pod[p].spec.type = "nfs" => place.fs = <<"pod", p, "">>
      BY DEF StorePlace, MountPlace, ContainerMounts
    <3> QED
      BY <1>2, <3>1, <3>2
  <2>3. Write(p, TRUE)
    BY <2>2
  <2>4. files' = {x \in files : x.place # place}
                   \cup {[place |-> place, content |-> Content(p), whole |-> TRUE]}
    BY <2>3 DEF Write
  <2>5. g.whole = TRUE
    BY <1>2, <2>1, <2>4
  <2> QED
    BY <2>1, <2>5
<1> QED
  BY <1>1, <1>2

\* A step keeps the artifacts of the pods that do not take it.
LEMMA BackStays ==
  ASSUME NEW r, NEW fs, NEW gs, Back(r, fs),
         \A f \in fs : \A host, bucket : f.place.fs = <<"s3", host, bucket>> /\ f.whole = TRUE =>
           \E g \in gs : g.place = f.place /\ g.content = f.content /\ g.whole = TRUE
  PROVE  Back(r, gs)
<1> SUFFICES ASSUME r.pc \in {"stored", "published"}, r.spec.type = "s3" PROVE Back(r, gs)
  BY DEF Back
<1>1. PICK f \in fs : f.place = S3Key(r) /\ f.whole = TRUE /\ f.content = ContentOf(r)
  BY DEF Back
<1>2. f.place.fs = <<"s3", r.spec.host, r.spec.bucket>>
  BY <1>1 DEF S3Key, S3Place
<1>3. PICK g \in gs : g.place = f.place /\ g.content = f.content /\ g.whole = TRUE
  BY <1>1, <1>2
<1> QED
  BY <1>1, <1>3 DEF Back

\* What a step of one pod has to show.
LEMMA OneBack ==
  ASSUME IInv, ArtifactsBack, NEW p \in Pods, NEW r, pod' = [pod EXCEPT ![p] = r],
         \A f \in files : \A host, bucket : f.place.fs = <<"s3", host, bucket>> /\ f.whole = TRUE =>
           \E g \in files' : g.place = f.place /\ g.content = f.content /\ g.whole = TRUE,
         NEW fs, fs = files', Back(r, fs)
  PROVE  ArtifactsBack'
<1>1. \A q \in Pods : pod'[q] = IF q = p THEN r ELSE pod[q]
  BY DEF IInv, StateTyped
<1>2. ASSUME NEW q \in Pods, q # p PROVE Back(pod[q], fs)
  <2>1. \A d \in {pod[q]}, gs \in {files} : Back(d, gs)
    BY DEF ArtifactsBack
  <2>2. PICK d, gs : d = pod[q] /\ gs = files /\ Back(d, gs)
    BY <2>1
  <2>3. Back(d, fs)
    BY <2>2, BackStays
  <2> QED
    BY <2>2, <2>3
<1> QED
  BY <1>1, <1>2 DEF ArtifactsBack


LEMMA UploadBack ==
  ASSUME IInv, ArtifactsBack, NEW p \in Pods, UploadToS3(p)
  PROVE  ArtifactsBack'
<1>1. /\ pod[p].pc = "exported" /\ pod[p].spec.type = "s3" /\ Write(p, TRUE)
      /\ pod[p] \in PodRecords
  BY DEF UploadToS3, IInv, StateTyped
<1>2. PICK l : l = Location(pod[p].spec, Rel(p))
  OBVIOUS
<1>3. PICK r : r = [pod[p] EXCEPT !.pc = "stored", !.location = l]
  OBVIOUS
<1>4. pod' = [pod EXCEPT ![p] = r]
  BY <1>2, <1>3 DEF UploadToS3
<1>5. /\ r.pc = "stored" /\ r.location = l /\ r.cluster = pod[p].cluster
      /\ r.owner = pod[p].owner /\ r.spec = pod[p].spec /\ r.time = pod[p].time
  BY <1>1, <1>3 DEF PodRecords
<1>6. PICK fs, f : /\ fs = files' /\ f \in fs
                   /\ f = [place |-> StorePlace(p, pod[p].spec, Rel(p)),
                           content |-> Content(p), whole |-> TRUE]
  BY <1>1 DEF Write
<1>7. /\ f.place = S3Key(r) /\ f.whole = TRUE /\ f.content = ContentOf(r)
      /\ r.location = Location(r.spec, RelOf(r))
  BY <1>1, <1>2, <1>5, <1>6 DEF StorePlace, S3Key, RelOf, Rel, Content, ContentOf
<1>8. Back(r, fs)
  BY <1>5, <1>6, <1>7 DEF Back
<1>9. \A e \in files : \A host, bucket : e.place.fs = <<"s3", host, bucket>> /\ e.whole = TRUE =>
        \E g \in files' : g.place = e.place /\ g.content = e.content /\ g.whole = TRUE
  BY <1>1, S3Stays
<1> QED
  BY <1>4, <1>6, <1>8, <1>9, OneBack

LEMMA NfsBack ==
  ASSUME IInv, ArtifactsBack, NEW p \in Pods, OpenNfsFile(p) \/ FillNfsFile(p)
  PROVE  ArtifactsBack'
<1>1. /\ pod[p].pc \in {"exported", "copying"} /\ pod[p] \in PodRecords
      /\ Write(p, TRUE) \/ (pod[p].spec.type = "nfs" /\ Write(p, FALSE))
  BY DEF OpenNfsFile, FillNfsFile, IInv, StateTyped
<1>2. PICK fs : fs = files'
  OBVIOUS
<1>3. \A f \in files : \A host, bucket : f.place.fs = <<"s3", host, bucket>> /\ f.whole = TRUE =>
        \E g \in files' : g.place = f.place /\ g.content = f.content /\ g.whole = TRUE
  BY <1>1, S3Stays
<1>4. CASE OpenNfsFile(p)
  <2>1. PICK r : r = [pod[p] EXCEPT !.pc = "copying"] /\ pod' = [pod EXCEPT ![p] = r]
    BY <1>4 DEF OpenNfsFile, Advance
  <2>2. Back(r, fs)
    BY <1>1, <1>4, <2>1 DEF Back, PodRecords, OpenNfsFile
  <2> QED
    BY <1>2, <1>3, <2>1, <2>2, OneBack
<1>5. CASE FillNfsFile(p)
  <2>1. PICK l : pod' = [pod EXCEPT ![p] = [pod[p] EXCEPT !.pc = "stored", !.location = l]]
    BY <1>5 DEF FillNfsFile
  <2>2. PICK r : r = [pod[p] EXCEPT !.pc = "stored", !.location = l]
    OBVIOUS
  <2>3. pod[p].spec.type = "nfs"
    BY <1>5 DEF FillNfsFile, ArtifactsBack, Back
  <2>4. Back(r, fs)
    BY <1>1, <2>2, <2>3 DEF Back, PodRecords
  <2> QED
    BY <1>2, <1>3, <2>1, <2>2, <2>4, OneBack
<1> QED
  BY <1>4, <1>5


\* The other steps of a pod leave the files alone, and only a report needs an artifact.
LEMMA OtherBack ==
  ASSUME IInv, ArtifactsBack, NEW p \in Pods,
         \/ \E c \in Clusters, o \in Owners : StartBackup(p, c, o) \/ StartRestore(p, c, o)
         \/ Publish(p) \/ Fail(p) \/ Load(p)
  PROVE  ArtifactsBack'
<1>1. pod[p] \in PodRecords /\ pod \in [Pods -> PodRecords]
  BY DEF IInv, StateTyped
<1>2. UNCHANGED files
  BY DEF StartBackup, StartRestore, Publish, Fail, Load
<1>3. \A f \in files : \A host, bucket : f.place.fs = <<"s3", host, bucket>> /\ f.whole = TRUE =>
        \E g \in files' : g.place = f.place /\ g.content = f.content /\ g.whole = TRUE
  BY <1>2
<1>4. PICK d, fs : d = pod[p] /\ fs = files /\ fs = files' /\ Back(d, fs) /\ d \in PodRecords
  BY <1>1, <1>2 DEF ArtifactsBack
<1>5. CASE Publish(p)
  <2>1. PICK r : r = [d EXCEPT !.pc = "published"] /\ pod' = [pod EXCEPT ![p] = r]
    BY <1>4, <1>5 DEF Publish, Advance
  <2>2. d.pc = "stored"
    BY <1>4, <1>5 DEF Publish
  <2>3. /\ r.pc = "published" /\ r.cluster = d.cluster /\ r.owner = d.owner /\ r.spec = d.spec
        /\ r.time = d.time /\ r.location = d.location
    BY <1>4, <2>1 DEF PodRecords
  <2>4. Back(r, fs)
    BY <1>4, <2>2, <2>3 DEF Back, S3Key, RelOf, ContentOf
  <2> QED
    BY <1>3, <1>4, <2>1, <2>4, OneBack
<1>6. CASE ~Publish(p)
  <2>1. PICK r : pod' = [pod EXCEPT ![p] = r] /\ r.pc \in {"exported", "loading", "failed", "loaded"}
    <3>1. ASSUME NEW c \in Clusters, NEW o \in Owners, StartBackup(p, c, o)
          PROVE  \E r : pod' = [pod EXCEPT ![p] = r] /\ r.pc = "exported"
      <4>1. PICK r : r = [pod[p] EXCEPT !.pc = "exported", !.cluster = c, !.owner = o,
                                        !.spec = spec[c], !.time = Timestamps[clock]]
        OBVIOUS
      <4>2. pod' = [pod EXCEPT ![p] = r] /\ r.pc = "exported"
        BY <1>1, <3>1, <4>1 DEF StartBackup, PodRecords
      <4> QED
        BY <4>2
    <3>2. ASSUME NEW c \in Clusters, NEW o \in Owners, StartRestore(p, c, o)
          PROVE  \E r : pod' = [pod EXCEPT ![p] = r] /\ r.pc = "loading"
      <4>1. PICK r : r = [pod[p] EXCEPT !.pc = "loading", !.cluster = c, !.owner = o,
                                        !.spec = spec[c], !.location = published[c][o]]
        OBVIOUS
      <4>2. pod' = [pod EXCEPT ![p] = r] /\ r.pc = "loading"
        BY <1>1, <3>2, <4>1 DEF StartRestore, PodRecords
      <4> QED
        BY <4>2
    <3>3. CASE Fail(p)
      <4>1. PICK r : r = [pod[p] EXCEPT !.pc = "failed"]
        OBVIOUS
      <4>2. pod' = [pod EXCEPT ![p] = r] /\ r.pc = "failed"
        BY <1>1, <3>3, <4>1 DEF Fail, Advance, PodRecords
      <4> QED
        BY <4>2
    <3>4. CASE Load(p)
      <4>1. PICK got : pod' = [pod EXCEPT ![p].pc = "loaded", ![p].got = got]
        BY <3>4 DEF Load
      <4>2. PICK r : r = [pod[p] EXCEPT !.pc = "loaded", !.got = got]
        OBVIOUS
      <4>3. pod' = [pod EXCEPT ![p] = r] /\ r.pc = "loaded"
        BY <1>1, <4>1, <4>2 DEF PodRecords
      <4> QED
        BY <4>3
    <3> QED
      BY <1>6, <3>1, <3>2, <3>3, <3>4
  <2>2. Back(r, fs)
    BY <2>1 DEF Back
  <2> QED
    BY <1>3, <1>4, <2>1, <2>2, OneBack
<1> QED
  BY <1>5, <1>6

LEMMA NextBack == IInv /\ ArtifactsBack /\ [Next]_vars => ArtifactsBack'
<1> SUFFICES ASSUME IInv, ArtifactsBack, [Next]_vars PROVE ArtifactsBack'
  OBVIOUS
<1>1. ASSUME NEW p \in Pods, PodStep(p) PROVE ArtifactsBack'
  BY <1>1, UploadBack, NfsBack, OtherBack DEF PodStep
<1>2. ASSUME UNCHANGED <<pod, files>> PROVE ArtifactsBack'
  BY <1>2 DEF ArtifactsBack
<1> QED
  BY <1>1, <1>2 DEF Next, EditSpec, Tick, vars

\* The URL a worker published for S3 leads any restore back to the whole artifact, as
\* long as the endpoint stays the same: whatever else of the location is edited, and
\* whatever the workers of other clusters and objects write (worker_storage.go).
THEOREM ReadsBack == Spec => []S3ReadsBack
<1>1. Init => ArtifactsBack
  <2>1. NewPod.pc = "new"
    BY DEF NewPod
  <2> HIDE DEF NewPod
  <2>2. ASSUME Init, NEW p \in Pods PROVE pod[p].pc = "new"
    BY <2>1, <2>2 DEF Init
  <2> QED
    BY <2>2 DEF ArtifactsBack, Back
<1>2. IInv /\ ArtifactsBack => S3ReadsBack
  <2> SUFFICES ASSUME IInv, ArtifactsBack, NEW p \in Pods, NEW q \in Pods, NEW s \in Specs,
                      pod[p].pc = "published", pod[p].spec.type = "s3", s.type = "s3",
                      s.host = pod[p].spec.host
               PROVE  \E f \in files : /\ f.place = LoadPlace(q, s, pod[p].location)
                                       /\ f.whole /\ f.content = Content(p)
    BY DEF S3ReadsBack
  <2>1. PICK r : r = pod[p] /\ Back(r, files)
    BY DEF ArtifactsBack
  <2>2. PICK f \in files : f.place = S3Key(r) /\ f.whole = TRUE /\ f.content = ContentOf(r)
    BY <2>1 DEF Back
  <2>3. r.location = Location(r.spec, RelOf(r))
    BY <2>1 DEF Back
  <2>4. r.spec.type = "s3" /\ s.host = r.spec.host
    BY <2>1
  <2>5. /\ r.location.scheme = r.spec.type
        /\ r.spec.type = "s3" => r.location.authority = r.spec.bucket
        /\ r.location.path = r.spec.path \o RelOf(r)
    BY <2>3 DEF Location
  <2>6. r.location.scheme = "s3" /\ r.location.authority = r.spec.bucket
        /\ r.location.path = r.spec.path \o RelOf(r)
    BY <2>4, <2>5
  <2>7. LoadPlace(q, s, r.location) = S3Key(r)
    BY <2>4, <2>6 DEF LoadPlace, S3Key, S3Place
  <2> QED
    BY <2>1, <2>2, <2>7 DEF Content, ContentOf
<1>3. IInv /\ ArtifactsBack /\ [Next]_vars => (IInv /\ ArtifactsBack)'
  BY NextInvariant, NextBack
<1> QED
  BY <1>1, <1>2, <1>3, InitInvariant, PTL DEF Spec

=============================================================================
