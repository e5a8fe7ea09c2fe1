SPECIFICATION Spec
CONSTANTS
  Events = {e1, e2}
  LateChannelLoss = TRUE
  MaxAttempts = 2
  MaxRefusals = 1
  MaxDisruptions = 2
INVARIANTS
  RecoveryIsOwed
CHECK_DEADLOCK FALSE
