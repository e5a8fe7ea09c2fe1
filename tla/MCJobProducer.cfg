SPECIFICATION FairSpec
CONSTANTS
  Events = {e1, e2}
  LateChannelLoss = FALSE
  MaxAttempts = 2
  MaxRefusals = 2
  MaxDisruptions = 3
INVARIANTS
  RecoveryIsOwed
  ResolvedWasRouted
  NoAttemptForgotten
PROPERTIES
  UsableAgain
  CloseResolves
CHECK_DEADLOCK FALSE
