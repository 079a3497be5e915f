SPECIFICATION FairSpec
CONSTANTS
  Restores = {r1}
  Namespaced = {}
  Sources = {s1}
  NamespacedSources = {s1}
  JobIds = {j1}
  NoLocation = NoLocation
  NoRestore = NoRestore
  MaxUid = 1
  MaxGeneration = 1
  MaxSourceUid = 1
  Kept = {}
  StorageTypes = {"nfs"}
  Seconds = {t1}
  Finalizers = TRUE
PROPERTY StartsOnceSourceReady
INVARIANT JobAwaitsArtifact
