SPECIFICATION FairSpec
CONSTANTS
  NumRecordings = 1
  Profiles = {ftp, s3}
  NoProfile = none
  CameraProfile = ftp
  MaxAdmin = 0
  BatchSize = 1
  AttemptCap = 2
  DropLocal = {ftp}
  RetentionModes = {"time"}
  LocalBudget = 0
  ArchiveExpires = FALSE
  IdempotentDelete = {s3}
  SettingsFaults = FALSE
  MaxCrashes = 0
CHECK_DEADLOCK FALSE
PROPERTIES QueuedSettles AgedOutIsQueued
