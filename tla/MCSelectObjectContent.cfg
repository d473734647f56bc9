SPECIFICATION Spec
CONSTANTS
  MaxMessages = 4
  Streams <- MCStreams
INVARIANTS
  ResultsInOrder WaitsOnlyBehindQuiet
PROPERTIES
  NothingAfterLast
