\* Resources, result sets and texts through every format; cursors that fail, streams that break.
SPECIFICATION Spec
CONSTANTS
  Schemes <- MCSchemes
  MaxCachedResources = 1
  Tables <- MCTables
  Root <- MCRoot
  Operations <- MCOperations
  MaxOps = 3
  Sources <- MCSources
  Documents <- MCDocuments
  Failures = {1, 3}
  BufSizes = {7, 80}
  Namespaces <- MCNamespaces
INVARIANTS RoundTrip RowsExact UpdatesAgree VariantFaithful
CHECK_DEADLOCK FALSE
