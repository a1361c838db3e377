SPECIFICATION FairSpec
CONSTANTS
  Resource = {"r1"}
  Graph = {"g1", "g2"}
  Class = {"M", "N"}
  Notify = {"M", "N"}
  None = None
  Slots = 1
  MaxChanges = 3
  MaxSignals = 1
  MaxEvents = 2
  MaxFaults = 1
CHECK_DEADLOCK FALSE
INVARIANTS InOrder UrnsKnown NothingLost
PROPERTIES EventsTellChanges QuietOnceDetached Announced
