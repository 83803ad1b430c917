SPECIFICATION FairSpec
CONSTANTS
  Versions = {v1, v2, v3}
  Bundled = Bundled
  NoVersion = NoVersion
  MaxPending = 2
  Faults <- AllFaults
INVARIANTS
  RunningIsRecorded
PROPERTIES
  SwitchKeepsTheOld
  ProtectionFollows
