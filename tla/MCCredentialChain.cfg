SPECIFICATION Spec
CONSTANTS
  env = env
  iam = iam
  t1 = t1
  t2 = t2
  Threads = {t1, t2}
  providers_ <- MCproviders
  Kind <- MCKind
  NoProvider = NoProvider
  Lives = {0, 1}
  Margin = 2
  Shift = 1
  MaxTime = 3
  MaxRequests = 3
INVARIANTS
  SignedAsIssued FreshWhenSigned FailsOnlyIfAllFailed
PROPERTIES
  RequestsEnd
CHECK_DEADLOCK FALSE
