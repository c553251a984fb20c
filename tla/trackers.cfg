SPECIFICATION Spec
CONSTANTS
  Cameras = {"door", "yard"}
  NumSubjects = 2
  Followed = {1}
  Scenes <- ScenesSeen
  NumSightings = 2
  IncidentIdle = 1
  JourneyIdle = 1
  Debounce = 1
  Skew = 1
  Batch = 1
  LastSighting = 3
  MaxTime = 4
  MaxTroubles = 1
CHECK_DEADLOCK FALSE
INVARIANTS SightingsFiled OneOpenInWindow JourneyReaches
PROPERTIES ClosedForGood DepartureIsTold
