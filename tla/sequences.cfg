SPECIFICATION FairSpec
CONSTANTS
  Evaluators = {pipeline}
  Keys = {k1, k2}
  NumSteps = 2
  Confirm = 1
  Within = 1
  MaxActive = 1
  OnRefire = "restart"
  MaxInstances = 2
  LastObservation = 2
  MaxCrashes = 0
CHECK_DEADLOCK FALSE
INVARIANTS CapHolds CompletesOnce ExpiryIsAnnounced
PROPERTIES StepsInTime EveryInstanceEnds
