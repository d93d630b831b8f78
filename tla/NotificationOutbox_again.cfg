SPECIFICATION Spec
CONSTANTS
  Events      = {e1}
  Polls       = {p1, p2}
  BatchSize   = 2
  MaxAttempts = 3
  MaxFaults   = 0
PROPERTIES CompletedIsSkipped
CHECK_DEADLOCK FALSE
