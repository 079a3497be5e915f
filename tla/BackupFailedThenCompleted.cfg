SPECIFICATION Spec
CONSTANTS
  Backups = {b1}
  Namespaced = {b1}
  JobIds = {j1}
  NoLocation = NoLocation
  NoBackup = NoBackup
  MaxUid = 1
  MaxGeneration = 1
  StorageTypes = {"s3"}
  Seconds = {t1}
  Finalizers = FALSE
INVARIANT CompletedHasArtifact
