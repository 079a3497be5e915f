SPECIFICATION FairSpec
CONSTANTS
  Backups = {c1}
  Namespaced = {}
  JobIds = {j1}
  NoLocation = NoLocation
  NoBackup = NoBackup
  MaxUid = 2
  MaxGeneration = 1
  StorageTypes = {"s3"}
  Seconds = {t1}
  Finalizers = TRUE
PROPERTIES
  PickedUp
  FinishedJobReported
