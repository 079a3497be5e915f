SPECIFICATION Spec
CONSTANTS
  l1 = l1
  l2 = l2
  r1 = r1
  Locations <- MCLocations
  Remotes <- MCRemotes
  ByName <- MCByName
  LocationSpecs <- MCLocationSpecs
  RemoteSpecs <- MCRemoteSpecs
  Secrets <- MCSecrets
  Answers <- MCAnswers
  Scenarios <- MCScenarios
  None = None
  AnyLocation = AnyLocation
  NoLocation = NoLocation
  MaxEdits = 2
  MaxFailures = 1
INVARIANTS
  TypeOK
  AvailableIsComplete
  RestoreTargetAnswered
PROPERTIES
  PodMatchesLocation
  LocationStatusSettles
  RemoteStatusSettles
CHECK_DEADLOCK FALSE
