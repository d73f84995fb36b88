SPECIFICATION Spec
CONSTANTS
  Classes <- OneClass
  MaxSeq <- OneFile
  FileLen = 1
  Faults = FALSE
  MaxRestarts = 1
  MaxCrashes = 0
INVARIANT StaysPending
