SPECIFICATION Spec
CONSTANTS
  Archive <- Applications
  BuiltinKinds <- Builtins
  Mapping <- App1Moved
  DefaultNamespace = "app2"
  Workers <- TwoWorkers
INVARIANTS
  TypeOK
  StaysInScope
  DoneMeansRestored
  PrerequisitesFirst
  UndisturbedSucceeds
CHECK_DEADLOCK FALSE
