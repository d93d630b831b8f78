SPECIFICATION Spec
CONSTANTS
  Services <- TwoServices
  Handlers = {h1, h2}
  Moments = {0, 2, 6, 12, 18}
INVARIANTS TypeOK WorkIsTold TimerIsNextRun
PROPERTIES BackupsGoOn
