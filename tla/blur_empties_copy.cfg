SPECIFICATION Spec
CONSTANTS
  NumRecordings = 1
  Profiles = {ftp, s3}
  NoProfile = none
  CameraProfile = ftp
  MaxAdmin = 0
  BatchSize = 2
  AttemptCap = 2
  DropLocal = {ftp}
  Protected = {1}
  MaxCrashes = 1
  MaxDeleted = 1
CHECK_DEADLOCK FALSE
INVARIANTS CopySurvives
