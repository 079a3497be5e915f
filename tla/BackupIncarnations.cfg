SPECIFICATION Spec
CONSTANTS
  Backups = {b1}
  Namespaced = {b1}
  JobIds = {j1}
  NoLocation = NoLocation
  NoBackup = NoBackup
  MaxUid = 2
  MaxGeneration = 2
  StorageTypes = {"s3", "nfs"}
  Seconds = {t1, t2}
  Finalizers = TRUE
SYMMETRY Symmetry
INVARIANTS
  RunningHasJob
  PublishedArtifactSound
PROPERTIES
  ObservedGenerationMonotone
  LedgerImplemented
