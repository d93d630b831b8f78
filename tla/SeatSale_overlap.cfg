SPECIFICATION Spec
CONSTANTS
  Users = {u1, u2}
  Seats = {a, b}
  Handlers = {h1, h2}
  Nobody = nobody
  Replicas = 1
  MaxClicks = 2
  MaxLoads = 2
SYMMETRY Symmetry
INVARIANTS TypeOK NoDoubleSale ViewIsTrue
CHECK_DEADLOCK FALSE
