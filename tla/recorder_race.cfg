\* Two producers race between the send and the index.
SPECIFICATION FairSpec
CONSTANTS
  p1 = p1
  p2 = p2
  Producers = {p1, p2}
  Capacity = 2
  MaxPerFile = 2
  TimedRotation = FALSE
  Droppable = TRUE
  DiskFaults = FALSE
  PowerFaults = FALSE
  MaxRecords = 2
  MaxChannels = 1
INVARIANT IndexIsPosition
CHECK_DEADLOCK FALSE
