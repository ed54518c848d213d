SPECIFICATION FairSpec
CONSTANTS
  Notifications = {n1, n2}
  Posters = {p1, p2}
  Worker = worker
  MaxAttempts = 2
  MaxCycles = 2
  Supervised = TRUE
  MaxNotifies = 1
  MaxCommands = 2
  MaxCrashes = 1
INVARIANTS
  TypeOK
  DeliveredWasAccepted
  DeadLetterIsEarned
  PostsAreBounded
PROPERTIES
  FailedIsResolved
CHECK_DEADLOCK FALSE
