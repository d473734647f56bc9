SPECIFICATION Spec
CONSTANTS
  Threads = {t1, t2}
  Regions = {us, eu}
  None = None
  MaxChanges = 2
  MaxFaults = 1
INVARIANTS
  ExistsIsTrue
PROPERTIES
  CacheHeals
