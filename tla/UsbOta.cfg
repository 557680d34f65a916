SPECIFICATION UsbOtaSpec
CONSTANTS
  Files <- MCFiles
  MaxUpdates = 2
  MaxForeign = 2
INVARIANTS RepliesAreOwn
PROPERTIES WorkerEndsEventually
CHECK_DEADLOCK FALSE
