SPECIFICATION Spec
CONSTANTS
  Paths = {f, g}
  Candidates = {f}
  NoPath = NoPath
  Prints = {small, huge}
  Oversized = {huge}
  NoPrint = NoPrint
  Threads = {t1, t2}
  Capacity = 2
  Limit = 1
  MaxScans = 2
  MaxKeys = 1
  MaxListed = 2
  Faults <- AllFaults
  MaxEdits = 3
  MaxSeconds = 1
INVARIANTS
  TypeOK
  ChangeIsReported
  ReportedIsScanned
  SlotsAccounted
SYMMETRY ThreadSymmetry
CONSTRAINT FewFailures
