SPECIFICATION HealthFairSpec
CONSTANTS
  Setups <- SmallSetups
  Names <- SmallNames
  Renamed <- SmallRenamed
  Jobs <- SmallJobs
  Window = 2
  LogTail = 2
  SeenLimit = 2
  MaxTime = 4
  MaxRuns = 3
  MaxLog = 5
  MaxCuts = 1
INVARIANTS OkIsEarned AllWatched AnnouncedOnce RunLogTrue
PROPERTIES PhoneSettles RunsRecorded
CHECK_DEADLOCK FALSE
