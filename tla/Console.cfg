SPECIFICATION ConsoleSpec
CONSTANTS
  Notifications = {n1, n2}
  Posters = {o1, o2, service}
  Worker = worker
  MaxAttempts = 1
  MaxCycles = 3
  Supervised = FALSE
  MaxNotifies = 1
  MaxCommands = 2
  MaxCrashes = 0
  Pilot = pilot1
  Operators = {o1, o2}
  Service = service
  Mine = n1
  FailFirst = 1
  MaxTries = 3
  MaxOutage = 3
  MaxLosses = 1
SYMMETRY Symmetry
INVARIANTS
  ConsoleTypeOK
  WorkerAuditIsCurrent
  ClosedIsQuiet
  PilotRecovers
CHECK_DEADLOCK FALSE
