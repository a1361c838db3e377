SPECIFICATION Spec
CONSTANTS
  Calls = {c1, c2, c3}
  Queries = {{c1, c2}, {c3}}
  Cached = {c1, c2, c3}
  Manager = Manager
  None = None
  MaxInterfaces = 2
  MaxStatements = 1
  Rows = 2
  MaxVersion = 1
  MaxReleases = 1
  MaxFaults = 1
CHECK_DEADLOCK FALSE
INVARIANTS KeptWhileUsed CursorExact CacheTidy
