SPECIFICATION Spec
CONSTANTS
  Tracks = {a, b}
  Untracked = u
  Incidents = {i, j, k}
  NoIncident = none
  Rules <- AllRules
  CacheTTL = 1
  MinFrames = 2
  Window = 1
  IncidentCap = 2
  MaxEval = 1
  MaxTime <- Clocks
  Budgets <- AllBudgets
CHECK_DEADLOCK FALSE
PROPERTIES CooldownHolds IncidentOnce VisitMutesOnlyAlerted RuleFreshness FramesInWindow
