SPECIFICATION Spec
CONSTANTS
  Pids = {1, 2}
  Retention = 2
  Zones = {1}
  MaxProcs = 2
  MaxRows = 2
  MaxTime = 2
  Faults = FALSE
PROPERTY RollingWindow
CHECK_DEADLOCK FALSE
