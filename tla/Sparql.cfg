SPECIFICATION Spec
CONSTANTS
  Uri <- MCUri
  Literal <- MCLiteral
  RdfType = "rdf:type"
  ClassOrder <- MCClassOrder
  SuperClasses <- MCSuperClasses
  PropOrder <- MCPropOrder
  SuperProps <- MCSuperProps
  Domain <- MCDomain
  Multi <- MCMulti
  Links <- MCLinks
  FullText <- MCFullText
  DomainIndexes <- MCDomainIndexes
  Numeric <- MCNumeric
  DefaultGraph = "main"
  None = None
  ListClass = "L"
  ListFirst = "first"
  ListRest = "rest"
  ListNil = "nil"
  Anywhere = Anywhere
  GraphName <- MCGraphs
  ServiceName = {"svc"}
  All = All
  Doomed = Doomed
  Files <- MCFiles
  Updates <- MCUpdates
  Selects <- MCSelects
  Scripts <- MCScripts
INVARIANTS UpdateExact TranslationsCurrent
PROPERTIES AnswerExact
CHECK_DEADLOCK FALSE
