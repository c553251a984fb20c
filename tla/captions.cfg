SPECIFICATION FairSpec
CONSTANTS
  NumJobs = 2
  Capacity = 2
  NormalCap = 1
  HighCap = 2
  Paces = {FALSE}
  MaxFaults = 0
  MaxCrashes = 1
  MaxPasses = 5
CHECK_DEADLOCK FALSE
INVARIANTS TypeOK PassesNumbered SummaryInForce RawLensOnce
PROPERTIES PassesImmutable EnrichmentFinishes
