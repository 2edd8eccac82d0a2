SPECIFICATION Spec
CONSTANTS
  Pids = {1, 2}
  Retention = 2
  Zones = {0, 1}
  MaxProcs = 2
  MaxRows = 3
  MaxTime = 2
  Faults = TRUE
INVARIANTS TypeOK NoOrphans EvidenceKept CleanCycle
PROPERTIES PrunesOnlyOld
CHECK_DEADLOCK FALSE
