SPECIFICATION Spec

CONSTANTS
  Jobs <- OneJob
  MaxAttempts = 1
  MaxDisruptions = 1
  MaxDbErrors = 1
  MaxRearms = 1

INVARIANT
  AttemptsWereMade

CHECK_DEADLOCK FALSE
