SPECIFICATION Spec
CONSTANTS
  Handlers = {h1, h2}
  Halls = {x1, x2}
  Showtimes = {s1, s2}
  Seats = {a}
  Short = short
  Long = long
  Movies = {short, long}
  Runtime <- RuntimeOf
  Release <- ReleaseOf
  Buffer = 1
  DayLength = 1
  Days = 3
  Keep = keep
  Changes <- ChangesAsked
  MaxRequests = 3
SYMMETRY Symmetry
INVARIANTS TypeOK HallNotDoubleBooked
PROPERTIES SoldShowtimeIsKept
CHECK_DEADLOCK FALSE
