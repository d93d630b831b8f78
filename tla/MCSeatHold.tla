----------------------------- MODULE MCSeatHold -----------------------------
(* The seat holds on small sets of users, showtimes, seats and handlers.   *)
EXTENDS SeatHold, TLC

\* Users, showtimes, seats and handler slots are interchangeable.
Symmetry == Permutations(Users) \cup Permutations(Showtimes)
              \cup Permutations(Seats) \cup Permutations(Handlers)
=============================================================================
