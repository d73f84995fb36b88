SPECIFICATION FairSpec
CONSTANTS
  Classes <- TwoClasses
  MaxSeq <- OneEach
  FileLen = 3
  Faults = TRUE
  MaxRestarts = 0
  MaxCrashes = 2
PROPERTY ImplementsStoreForward
PROPERTY AllDelivered
