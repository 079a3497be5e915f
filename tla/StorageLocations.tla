---------------------------- MODULE StorageLocations ----------------------------
(***************************************************************************)
(* The validation of BackupStorageLocations, and the choice of one for a   *)
(* backup: by the controller, from its cache, to build the worker's pod,   *)
(* and again by the worker, from the API server, to store the artifact.    *)
(*                                                                         *)
(* A spec is [type, parts, bucket, server, path, default], parts telling   *)
(* which of s3 and nfs are given; the fields of a missing part are empty.  *)
(***************************************************************************)
EXTENDS ConfigObjects, SequencesExt, FiniteSetsExt

CONSTANTS
  LocationSpecs,    \* specs that users write
  ByName,           \* Locations in the order of their names
  AnyLocation,      \* no storageRef
  NoLocation        \* the error of resolve.StorageLocation

ASSUME LocationsAssumption ==
  /\ ByName \in SetToSeqs(Locations) /\ IsFiniteSet(Locations)
  /\ AnyLocation \notin Locations /\ NoLocation \notin Locations
  /\ None \notin LocationSpecs /\ \A spec \in LocationSpecs : spec.default \in BOOLEAN

VARIABLE
  backup            \* a backup: its storageRef, the location of its pod and, while
                    \* its worker has not chosen, the specs the controller saw

-----------------------------------------------------------------------------
(* The controller of BackupStorageLocations.                               *)

\* Mutant: a phase the API does not declare.
ValidatedPhaseUndeclared(spec) ==
  IF spec.type = "s3" /\ spec.bucket # "" THEN "Valid" ELSE "Unavailable"

ValidatedPhase(spec) ==
  IF \/ spec.type = "s3" /\ "s3" \in spec.parts /\ spec.bucket # ""
     \/ spec.type = "nfs" /\ "nfs" \in spec.parts /\ spec.server # "" /\ spec.path # ""
    THEN "Available" ELSE "Unavailable"

ReconcileLocation(n) ==
  Begin(n, [NewCall(n) EXCEPT !.phase = ValidatedPhase(cache[n].spec)])

-----------------------------------------------------------------------------
(* resolve.StorageLocation.                                                *)

SpecsIn(stored) ==
  [n \in DOMAIN stored \cap Locations |-> IF stored[n] = None THEN None ELSE stored[n].spec]

Listed(stored) == {n \in DOMAIN stored \cap Locations : stored[n] # None}

\* Where in the list the defaults are.
DefaultsIn(stored, order) ==
  {i \in DOMAIN order : order[i] \in Listed(stored) /\ stored[order[i]].spec.default}

\* Mutant: without a default, the first in the list.
StorageLocationFirst(stored, order, ref) ==
  LET items == Listed(stored)
      defaults == DefaultsIn(stored, order)
  IN  CASE ref # AnyLocation -> IF ref \in items THEN ref ELSE NoLocation
        [] ref = AnyLocation /\ defaults # {} -> order[Min(defaults)]
        [] OTHER -> IF items # {} THEN order[Min({i \in DOMAIN order : order[i] \in items})]
                    ELSE NoLocation

StorageLocation(stored, order, ref) ==
  LET items == Listed(stored)
      defaults == DefaultsIn(stored, order)
  IN  CASE ref # AnyLocation -> IF ref \in items THEN ref ELSE NoLocation
        [] ref = AnyLocation /\ defaults # {} -> order[Min(defaults)]
        [] OTHER -> IF Cardinality(items) = 1 THEN CHOOSE n \in items : TRUE ELSE NoLocation

\* buildBackupJob looks at NFS only.
PodBuilds(spec) ==
  spec.type = "nfs" => "nfs" \in spec.parts /\ spec.server # "" /\ spec.path # ""

\* The worker asks for the part of the type, and no more of the spec.
HasConfig(spec) == spec.type \in spec.parts

NewBackup(ref) ==
  [ref |-> ref, pc |-> "waiting", podFor |-> NoLocation, seen |-> <<>>,
   chosen |-> NoLocation]

\* The order of a cached list is arbitrary.  Without a location, or with one it
\* cannot build a pod for, the controller fails the backup until a later event.
ControllerResolves ==
  /\ backup.pc = "waiting"
  /\ \E order \in SetToSeqs(Locations) :
       LET n == StorageLocation(cache, order, backup.ref) IN
       /\ n # NoLocation /\ PodBuilds(cache[n].spec)
       /\ backup' = [backup EXCEPT !.pc = "built", !.podFor = n, !.seen = SpecsIn(cache)]
  /\ UNCHANGED configVars

\* The worker's list comes from the API server, in the order of names.  Its secret
\* may be missing and the transfer may fail, whatever the spec.
WorkerResolves ==
  /\ backup.pc = "built"
  /\ LET n == StorageLocation(objects, ByName, backup.ref)
         stores == n # NoLocation /\ HasConfig(objects[n].spec)
     IN  \E pc \in {"failed"} \cup (IF stores THEN {"stored"} ELSE {}) :
           backup' = [backup EXCEPT !.pc = pc, !.chosen = n, !.seen = <<>>]
  /\ UNCHANGED configVars

-----------------------------------------------------------------------------
(* Properties.                                                             *)

Defaults(specs) == {n \in DOMAIN specs : specs[n] # None /\ specs[n].default}

\* The locations that a choice among these specs is made from.
Candidates(specs, ref) ==
  LET there == {n \in DOMAIN specs : specs[n] # None} IN
  IF ref # AnyLocation THEN {ref} \cap there
  ELSE IF Defaults(specs) # {} THEN Defaults(specs) ELSE there

\* A location whose status says Available for its present generation has in its spec
\* all that the controller asks of it to build a pod and the worker to store,
\* whichever edits, deletions and re-creations its validation crossed
\* (backupstoragelocation_controller.go:34-57, job_builder.go:115,
\* worker_storage.go:90, 213).  That its secret exists, or that the storage answers,
\* the status does not say.
AvailableIsComplete ==
  \A n \in Locations :
    (Present(n) /\ Observed(objects[n]) /\ objects[n].status.phase = "Available")
      => PodBuilds(objects[n].spec) /\ HasConfig(objects[n].spec)

\* The worker, which resolves the location again, comes to the one its pod was built
\* for, whatever was edited, deleted or re-created in between, as long as the choice
\* is made from the same candidates: the location named, the default one, or the
\* only one (backup_controller.go:46, worker_backup.go:57, storage.go:13-42).  It
\* need not when several are the default, the cached list having no order, or when
\* another location became the default or the only one.
PodMatchesLocation ==
  [][(/\ backup.pc = "built" /\ backup'.pc # "built"
      /\ Candidates(backup.seen, backup.ref) = Candidates(SpecsIn(objects), backup.ref)
      /\ backup.ref # AnyLocation \/ Cardinality(Defaults(backup.seen)) <= 1)
       => backup'.chosen = backup.podFor]_backup

\* Once users leave a location alone its status is the verdict on its present
\* spec, for good, whatever updates failed and however often the manager
\* restarted; no resync is needed (backupstoragelocation_controller.go:57-60).
LocationStatusSettles ==
  \A n \in Locations :
    <>[](Present(n) => /\ Observed(objects[n])
                       /\ objects[n].status.phase = ValidatedPhase(objects[n].spec))

================================================================================
