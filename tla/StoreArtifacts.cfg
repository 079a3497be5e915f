SPECIFICATION Spec
CONSTANTS
  Segments <- MCSegments
  Clusters = {"A", "B"}
  ClusterId <- MCClusterId
  Owners <- TwoOwners
  SpecsOf <- MixedSpecs
  Pods = {p1, p2, p3}
  Timestamps <- TwoSeconds
SYMMETRY PodSymmetry
INVARIANTS
  LoadedIsOwn
  S3ReadsBack
PROPERTY ArtifactsKept
CHECK_DEADLOCK FALSE
