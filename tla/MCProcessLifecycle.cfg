SPECIFICATION FairSpec
CONSTANTS
  Uploads = {u1, u2}
  Requests = {q1}
  MaxFailures = 2
INVARIANTS
  ReleasedIsUnused
  ExitIsHonest
PROPERTIES
  EndsInTime
CHECK_DEADLOCK FALSE
