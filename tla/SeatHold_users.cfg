SPECIFICATION Spec
CONSTANTS
  Users     = {u1, u2}
  Showtimes = {st1, st2}
  Seats     = {s1}
  Handlers  = {h1, h2}
  NoUser    = NoUser
  NoJob     = NoJob
  HoldLimit = 1
  HoldTtl   = 1
SYMMETRY Symmetry
INVARIANTS OneListedSession
PROPERTIES SeatIsLock
