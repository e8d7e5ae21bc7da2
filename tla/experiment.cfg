CONSTANTS
  NoMax = NoMax
  Raw <- MCRaw
  Sources <- MCSources
  Fields <- MCFields
  SeriesFields = {"c"}
  Required = 3
  Designs <- MCDesigns
  PartsOf <- MCParts
  Replications = 3
  Seeds <- MCSeeds
  Seedings = {"common", "independent"}
  Memories <- MCMemories
  Failures = {"record", "raise"}
  Selections <- MCSelected
  Doublings = 2
  MaxCalls = 2
SPECIFICATION Spec
INVARIANTS OutcomesIdeal LeastExtended CacheSound RowsAgree ReportsExact
CHECK_DEADLOCK FALSE
