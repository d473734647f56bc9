CONSTANTS
  Putters = {"p"}
  Uploaders = {"u"}
  Rails = {1, 2}
  DeadRails = {{1}}
  MaxCalls = 2
  MaxVersions = 1
  kRDMAMaxAttempts = 2
SPECIFICATION Spec
INVARIANT StoredWhole
INVARIANT GotCurrent
INVARIANT PutStored
INVARIANT SecondRailLives
PROPERTY QuietAfterReturn
CHECK_DEADLOCK FALSE
