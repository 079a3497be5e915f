SPECIFICATION Spec
CONSTANTS
  Discovery <- MCDiscovery
  MaxNameLength = 6
  Objects <- MCObjects
  Initial <- MCInitial
  Workers = {w1, w2}
  Assignments <- MCAssignments
  Stamps <- MCStamps
  MaxChanges = 1
  MaxFailures = 1
INVARIANTS
  TypeOK
  ExportedInScope
  ExportComplete
  CompletedInTime
  SnapshotsRecent
  SnapshotsComplete
SYMMETRY WorkerSymmetry
CHECK_DEADLOCK FALSE
