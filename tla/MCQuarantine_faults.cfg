SPECIFICATION FairSpec
CONSTANTS
  Paths = {p1, p2}
  Contents = {c1, c2}
  Detected = {c1, c2}
  Ids = {q1, q2}
  NoFile = NoFile
  Partial = Partial
  Faults <- AllFaults
INVARIANTS
  Custody
  NoLeak
PROPERTIES
  ImplementsVault
  HandlerFinishes
