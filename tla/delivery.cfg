SPECIFICATION FairSpec
CONSTANTS
  Capacity = 2
  BufferRoom = 3
  DiskFaults = TRUE
  LinkFaults = TRUE
  MaxRollouts = 3
  MaxCrashes = 2
  MaxRestarts = 1
INVARIANT TypeOK
INVARIANT NothingSkipped
INVARIANT OnlyUncommittedResent
INVARIANT NoSilentLoss
INVARIANT ReadableUntilCrash
PROPERTY ImplementsStoreForward
PROPERTY AllRegistered
CHECK_DEADLOCK FALSE
