SPECIFICATION Spec
CONSTANTS
  Users = {u1, u2}
  Seats = {a, b}
  Handlers = {h1}
  Nobody = nobody
  Replicas = 1
  MaxClicks = 3
  MaxLoads = 2
SYMMETRY Symmetry
INVARIANTS SeatSoldOnce
CHECK_DEADLOCK FALSE
