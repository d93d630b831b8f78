SPECIFICATION FairSpec
CONSTANTS
  Events      = {e1, e2}
  Polls       = {p1, p2}
  BatchSize   = 2
  MaxAttempts = 3
  MaxFaults   = 1
INVARIANTS TypeOK AttemptsAreSpent ProcessingIsAttended
PROPERTIES RetriesTerminate
CHECK_DEADLOCK FALSE
