SPECIFICATION Spec
CONSTANTS
  Procs = {p1, p2}
  Kinds = {"credential", "injection", "network"}
  Never = Never
  Signals <- SignalsInstance
  LogEvents = {log}
  Capacity = 2
  DrainLimit = 1
  MaxReceived = 4
  Window = 1
  Cooldown = 3
  MaxSignals = 3
  MaxChains = 1
  MaxTime = 3
INVARIANTS
  TypeOK
  EventsAccounted
  ChainIsReported
PROPERTIES
  AlertHasEvidence
  CooldownHolds
SYMMETRY ProcSymmetry
