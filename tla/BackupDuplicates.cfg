SPECIFICATION Spec
CONSTANTS
  Backups = {b1}
  Namespaced = {b1}
  JobIds = {j1, j2}
  NoLocation = NoLocation
  NoBackup = NoBackup
  MaxUid = 1
  MaxGeneration = 1
  StorageTypes = {"s3", "nfs"}
  Seconds = {t1}
  Finalizers = FALSE
SYMMETRY Symmetry
INVARIANTS
  TypeOK
  CompletedIsJustified
PROPERTY PublicationNotOverwritten
