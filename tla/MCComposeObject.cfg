SPECIFICATION Spec
CONSTANTS
  None = None
  kMinPartSize = 2
  kMaxPartSize = 4
  kMaxObjectSize = 11
  kMaxMultipartCount = 3
  kMaxPartNumber = 3
  Sizes <- MCSizes
  Requests <- MCRequests
  MaxReplaced = 1
INVARIANTS
  WholeComposition PartsAsCounted NoUploadLeftBehind
PROPERTIES
  Termination
