SPECIFICATION Spec
CONSTANTS
  None = None
  kMinPartSize = 2
  kMaxPartSize = 4
  kMaxObjectSize = 20
  kMaxMultipartCount = 4
  kMaxPartNumber = 4
  max_inflight_parts = 4
  kMaxInflightParts = 3
  PartSizeArg = 2
  ObjectSizes <- MCObjectSizes
  StreamLengths <- MCStreamLengths
INVARIANTS
  BufferIntact ObjectIntegrity SuccessMeansStored CancelHonoured
  NoUploadLeftBehind AbortAfterDrain
PROPERTIES
  RefinesAtomicPut Termination
