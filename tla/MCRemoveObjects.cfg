SPECIFICATION Spec
CONSTANTS
  kBatch = 2
  MaxObjects = 5
INVARIANTS
  ErrorsReported AllRemoved
