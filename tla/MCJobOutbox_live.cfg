SPECIFICATION FairSpec

CONSTANTS
  Jobs <- TwoJobs
  MaxAttempts = 2
  MaxDisruptions = 1
  MaxDbErrors = 1
  MaxRearms = 1

PROPERTIES
  ImplementsJobLife
  EveryJobSettles
  StopDrains

CHECK_DEADLOCK FALSE
