SPECIFICATION Spec
CONSTANTS
  NumRecordings = 1
  Profiles = {ftp, s3}
  NoProfile = none
  CameraProfile = ftp
  MaxAdmin = 1
  BatchSize = 1
  AttemptCap = 1
  DropLocal = {ftp}
  RetentionModes = {"time", "none"}
  LocalBudget = 0
  ArchiveExpires = TRUE
  IdempotentDelete = {s3}
  SettingsFaults = TRUE
  MaxCrashes = 1
CHECK_DEADLOCK FALSE
INVARIANTS CopySurvives UploadedHasObject ExpiryLeavesNoOrphan
PROPERTIES VaultSpec
