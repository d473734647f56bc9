SPECIFICATION Spec
CONSTANTS
  None = None
  kMinPartSize = 2
  kMaxPartSize = 4
  kMaxObjectSize = 20
  kMaxMultipartCount = 3
  kMaxPartNumber = 3
  PartSizeArg = 2
  ObjectSizes <- MCObjectSizes
  StreamLengths <- MCStreamLengths
INVARIANTS
  FailureLeavesNothing
PROPERTIES
  RefinesAtomicPut
