SPECIFICATION Spec
CONSTANTS
  Archive <- WithDefinition
  BuiltinKinds <- Builtins
  Mapping <- NoMapping
  DefaultNamespace = ""
  Workers <- OneWorker
INVARIANT CompletedMeansEverything
CHECK_DEADLOCK FALSE
