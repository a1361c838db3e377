\* A database under five versions of an ontology, new or of an old format.
SPECIFICATION Spec
CONSTANTS
  NamespaceOf <- MCNamespaceOf
  Stock <- MCStock
  OntologyData <- MCData
  NoData = "none"
  Openings <- MCOpenings
  Facts <- MCFacts
  OldFiles <- MCOldFiles
  GraphNames = {"g"}
  MaxOpens = 3
  MaxFacts = 1
  MaxFaults = 1
INVARIANTS SchemaFresh NoDanglingIds RefusedForCause
PROPERTIES UpgradeExact
CHECK_DEADLOCK FALSE
