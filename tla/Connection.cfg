SPECIFICATION FairSpec
CONSTANTS
  Updates = {"a1", "a2", "s1"}
  Queries = {"q1"}
  Async = {"a1", "a2", "q1"}
  Cancellable = {"a1", "q1"}
  Release = "release"
  None = "none"
  MaxSelect = 1
  MaxQueue = 1
  WithClose = TRUE
  WaitsForCallers = TRUE
CHECK_DEADLOCK FALSE
INVARIANTS OneWriter AnswersTruthful ArrivalOrder ReadsConfirmed OrderlyClose
PROPERTIES Answered CloseEnds
