\* Two producers, a short channel, rotation, disk faults and power loss.
SPECIFICATION Spec
CONSTANTS
  p1 = p1
  p2 = p2
  Producers = {p1, p2}
  Capacity = 2
  MaxPerFile = 2
  TimedRotation = FALSE
  Droppable = TRUE
  DiskFaults = TRUE
  PowerFaults = TRUE
  MaxRecords = 4
  MaxChannels = 2
SYMMETRY ProducerSymmetry
INVARIANT TypeOK
INVARIANT AcceptedIsWritten
INVARIANT FinalIsComplete
INVARIANT NoPublishedGap
INVARIANT RotationBound
CHECK_DEADLOCK FALSE
PROPERTY GoneIsFinal
