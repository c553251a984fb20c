SPECIFICATION Spec
CONSTANTS
  Evaluators = {pipeline, audio}
  Keys = {k1}
  NumSteps = 1
  Confirm = 2
  Within = 1
  MaxActive = 2
  OnRefire = "ignore"
  MaxInstances = 1
  LastObservation = 2
  MaxCrashes = 1
CHECK_DEADLOCK FALSE
SYMMETRY EvaluatorSymmetry
INVARIANT TimesOutOnce
PROPERTIES NeverReactivated
