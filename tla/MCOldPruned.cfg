SPECIFICATION Spec
CONSTANTS
  Pids = {1, 2}
  Retention = 1
  Zones = {0}
  MaxProcs = 2
  MaxRows = 2
  MaxTime = 2
  Faults = FALSE
INVARIANT OldPruned
CHECK_DEADLOCK FALSE
