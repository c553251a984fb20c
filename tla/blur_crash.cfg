SPECIFICATION NoArchiveSpec
CONSTANTS
  NumRecordings = 2
  Profiles = {ftp, s3}
  NoProfile = none
  CameraProfile = s3
  MaxAdmin = 0
  BatchSize = 2
  AttemptCap = 1
  DropLocal = {ftp}
  Protected = {1}
  MaxCrashes = 1
  MaxDeleted = 1
CHECK_DEADLOCK FALSE
INVARIANTS CopySurvives StaysUsable
