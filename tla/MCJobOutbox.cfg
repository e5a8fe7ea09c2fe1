SPECIFICATION Spec

CONSTANTS
  Jobs <- TwoJobs
  MaxAttempts = 2
  MaxDisruptions = 2
  MaxDbErrors = 1
  MaxRearms = 1

INVARIANTS
  PublishedWasAccepted
  InFlightIsLive
  AttemptsWereMade
  DuplicatesAreExplained

CHECK_DEADLOCK FALSE
