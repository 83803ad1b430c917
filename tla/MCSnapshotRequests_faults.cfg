SPECIFICATION Spec
CONSTANTS
  Pids = {p1, p2}
  Images = {a, b}
  Ports = {1}
  None = None
  Views <- ViewsInstance
  MaxPending = 1
  PerCycle = 1
  BeaconRows = 2
  MaxCount = 3
  MaxCycles = 3
  MaxRequests = 3
  MaxTurns = 5
  MaxFaults = 1
  MaxRestarts = 1
INVARIANTS
  NewIsAccounted
  BeaconIsReported
  NothingSavedSilently
  TimelineReplays
SYMMETRY Symmetries
CHECK_DEADLOCK FALSE
