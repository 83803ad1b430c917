SPECIFICATION Spec
CONSTANTS
  Gone = Gone
  Unset = Unset
  Cases <- CasesInstance
  Rewrites <- RewritesInstance
  MaxWrites = 2
INVARIANTS
  TypeOK
  PointsHaveReasons
  CapabilitiesAreNotMalice
  MalwareIsReported
CHECK_DEADLOCK FALSE
