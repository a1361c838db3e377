SPECIFICATION ViewSpec
CONSTANTS
  Uri <- MCUri
  Literal <- MCLiteral
  RdfType = "rdf:type"
  ClassOrder <- MCClassOrder
  SuperClasses <- MCSuperClasses
  PropOrder <- MCPropOrder
  SuperProps <- MCSuperProps
  Domain <- MCDomain
  Multi <- MCMulti
  Links <- MCLinks
  FullText <- MCFullText
  DomainIndexes <- NoIndexes
  SqlError = SqlError
  Workloads <- SilentWorkloads
  Silent <- SilentStatements
  ClearGraph <- MCClear
  UpdateLogSize = 8
  MaxOps = 4
PROPERTIES SilentKeepsEarlierWork
