SPECIFICATION Spec
CONSTANTS
  Segments <- MCSegments
  Clusters = {"A", "B"}
  ClusterId <- MCClusterId
  Owners <- OneOwner
  SpecsOf <- NfsSpecs
  Pods = {p1, p2}
  Timestamps <- OneSecond
SYMMETRY PodSymmetry
INVARIANT NfsIsShared
CHECK_DEADLOCK FALSE
