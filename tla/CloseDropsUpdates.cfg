SPECIFICATION Spec
CONSTANTS
  Updates = {"a1", "s1"}
  Queries = {"q1", "r1"}
  Async = {"a1", "q1"}
  Cancellable = {"a1", "q1"}
  Release = "release"
  None = "none"
  MaxSelect = 1
  MaxQueue = 2
  WithClose = TRUE
  WaitsForCallers = TRUE
CHECK_DEADLOCK FALSE
INVARIANTS PendingFlushed
