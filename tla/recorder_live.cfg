\* One producer and disk faults: the message index, and everything that must
\* eventually happen.
SPECIFICATION FairSpec
CONSTANTS
  p1 = p1
  p2 = p2
  Producers = {p1}
  Capacity = 1
  MaxPerFile = 2
  TimedRotation = TRUE
  Droppable = FALSE
  DiskFaults = TRUE
  PowerFaults = FALSE
  MaxRecords = 3
  MaxChannels = 2
INVARIANT IndexIsPosition
PROPERTY EventuallySettled
PROPERTY ShutdownCompletes
PROPERTY RegisterReturns
CHECK_DEADLOCK FALSE
