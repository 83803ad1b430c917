SPECIFICATION FairSpec
CONSTANTS
  Ids = {s1, s2, s3}
  MaxRetained = 2
  PruneBelow = 2
  MaxFiles = 2
  Faults <- AllFaults
INVARIANTS
  PrunedHaveReturned
  CompletedCoversAll
  CancelStopsRecording
PROPERTIES
  ScanEnds
