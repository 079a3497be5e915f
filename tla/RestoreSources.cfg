SPECIFICATION Spec
CONSTANTS
  Restores = {r1}
  Namespaced = {r1}
  Sources = {c1, c2}
  NamespacedSources = {}
  JobIds = {j1}
  NoLocation = NoLocation
  NoRestore = NoRestore
  MaxUid = 1
  MaxGeneration = 2
  MaxSourceUid = 2
  Kept = {c1, c2}
  StorageTypes = {"s3"}
  Seconds = {t1}
  Finalizers = FALSE
SYMMETRY Symmetry
INVARIANTS
  TypeOK
  AppliedFromSource
  JobAwaitsArtifact
  CompletedIsJustified
