SPECIFICATION FairSpec
CONSTANTS
  Messages = {m1, m2}
  MaxDisruptions = 2
  MaxFailures = 1
INVARIANTS
  RecoveryIsOwed
  NoStrandedDelivery
PROPERTIES
  NothingAcceptedAfterStop
  ImplementsDelivery
  SubscribesAgain
  EveryJobDone
  ActivationSettles
  StopResolves
CHECK_DEADLOCK FALSE
