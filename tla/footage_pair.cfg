SPECIFICATION Spec
CONSTANTS
  NumRecordings = 2
  Profiles = {ftp, s3}
  NoProfile = none
  CameraProfile = none
  MaxAdmin = 0
  BatchSize = 2
  AttemptCap = 1
  DropLocal = {ftp}
  RetentionModes = {"size"}
  LocalBudget = 0
  ArchiveExpires = TRUE
  IdempotentDelete = {s3}
  SettingsFaults = FALSE
  MaxCrashes = 0
CHECK_DEADLOCK FALSE
INVARIANT OwnedIsKept
