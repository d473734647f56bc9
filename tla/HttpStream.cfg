CONSTANTS
  MaxLines = 3
  Lines = {"records", "noList", "blank", "notJson"}
SPECIFICATION Spec
INVARIANT RecordsInOrder
INVARIANT HonestResult
PROPERTY NothingAfterStop
CHECK_DEADLOCK FALSE
