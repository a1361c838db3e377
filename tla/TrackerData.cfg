SPECIFICATION ViewSpec
CONSTANTS
  Uri <- MCUri
  Literal <- MCLiteral
  RdfType = "rdf:type"
  ClassOrder <- MCClassOrder
  SuperClasses <- MCSuperClasses
  PropOrder <- MCPropOrder
  SuperProps <- MCSuperProps
  Domain <- MCDomain
  Multi <- MCMulti
  Links <- MCLinks
  FullText <- MCFullText
  DomainIndexes <- TextIndex
  SqlError = SqlError
  Workloads <- MCWorkloads
  Silent <- SilentStatements
  ClearGraph <- MCClear
  UpdateLogSize = 8
  MaxOps = 4
INVARIANTS TypeOK RefcountCovers NoDanglingIds ClassInference FtsMatches DomainIndexesMatch BufferedTypesCurrent
PROPERTIES ChangesAnnounced ImplementsTripleStore
