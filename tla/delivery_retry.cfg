SPECIFICATION Spec
CONSTANTS
  Capacity = 1
  BufferRoom = 3
  DiskFaults = FALSE
  LinkFaults = TRUE
  MaxRollouts = 2
  MaxCrashes = 0
  MaxRestarts = 0
INVARIANT RecordedOnce
CHECK_DEADLOCK FALSE
