CONSTANTS
  Threads = {t1, t2}
  Given <- MCGiven
  MaxCalls = 3
  MaxFaults = 1
SPECIFICATION Spec
INVARIANT ReadsBack
INVARIANT SuccessMeansDone
CHECK_DEADLOCK FALSE
