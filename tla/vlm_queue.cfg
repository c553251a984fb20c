SPECIFICATION QueueSpec
CONSTANTS
  NumJobs = 4
  Capacity = 2
  NormalCap = 1
  HighCap = 2
  Paces = {TRUE, FALSE}
  MaxFaults = 1
  MaxCrashes = 1
CHECK_DEADLOCK FALSE
INVARIANTS QueueTypeOK DropsCounted StrandedIsNotIdle
PROPERTIES WorkerDrains
