SPECIFICATION Spec
CONSTANTS
  Threads = {t1}
  Size <- MCSize
  None = None
  DiskFull = TRUE
  MaxCalls = 3
  MaxChanges = 3
INVARIANTS
  FileIsVersion
PROPERTIES
  SuccessIsCurrent FailureKeepsFile
CHECK_DEADLOCK FALSE
