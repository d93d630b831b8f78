SPECIFICATION FairSpec
CONSTANTS
  Users     = {u1}
  Showtimes = {st1}
  Seats     = {s1, s2}
  Handlers  = {h1, h2}
  NoUser    = NoUser
  NoJob     = NoJob
  HoldLimit = 1
  HoldTtl   = 2
INVARIANTS TypeOK HoldOvershootBounded ListingOutlivesHold
PROPERTIES SeatEventuallyFree
