SPECIFICATION Spec
CONSTANTS
  Classes <- TwoClasses
  MaxSeq <- OneEach
  FileLen = 2
  Faults = TRUE
  MaxRestarts = 1
  MaxCrashes = 1
INVARIANT TypeOK
INVARIANT DoneIsInCloud
INVARIANT OffsetIsConfirmed
INVARIANT SafetyFirst
PROPERTY DoneIsFinal
