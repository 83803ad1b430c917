SPECIFICATION Spec
CONSTANTS
  svc = svc
  task = task
  Services = {svc}
  Tasks = {task}
  Reports = {}
  SharedId = wmi
  Rank <- RankInstance
  Reviewable = {svc, task}
  StartTypes <- TwoStarts
  NoItem = NoItem
  NoInventory = NoInventory
  Faults <- AllFaults
  MaxUpsets = 1
  MaxRollbacks = 2
INVARIANTS
  DisabledIsRestorable
  TimelineMatchesTable
PROPERTIES
  RestoreGivesBack
