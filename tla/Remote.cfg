SPECIFICATION Spec
CONSTANTS
  Calls <- MCCalls
  Inner <- MCInner
  SessionPaths <- MCSessionPaths
  Sites = {"service", "portal"}
  Hosts = {"service", "s1", "web"}
  SerializerFormats <- MCFormats
  PipeSize = 2
  BadTexts = {"bad"}
  Needs <- MCNeeds
  MAX_CACHED_STMTS = 1
  RowCount = 2
  Stmts = {"s"}
  Clients = {"A", "B"}
  Jobs <- MCJobs
INVARIANTS
  OwnRows
  CommittedWhole
PROPERTIES
  Settles
CHECK_DEADLOCK FALSE
