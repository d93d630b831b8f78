------------------------------ MODULE SeatLock ------------------------------
(***************************************************************************)
(* What a seat hold promises, without Redis: every seat of every showtime  *)
(* is a lock.  A free seat may be taken by one user, a taken seat can only *)
(* become free again.  A hold never passes from one user to another        *)
(* without the seat having been free in between.                           *)
(***************************************************************************)
CONSTANTS Users,      \* the customers
          Showtimes,  \* the showtimes on sale
          Seats,      \* the seats of the hall
          NoUser      \* "nobody holds this seat"

VARIABLE holder       \* holder[st][s]: who holds seat s of showtime st

Init == holder = [st \in Showtimes |-> [s \in Seats |-> NoUser]]

\* A user takes a seat that nobody holds.
Acquire(u, st, s) ==
  /\ holder[st][s] = NoUser
  /\ holder' = [holder EXCEPT ![st][s] = u]

\* Any number of seats become free at once (a release, a booking, a timeout).
Free(F) ==
  holder' = [st \in Showtimes |->
               [s \in Seats |-> IF <<st, s>> \in F THEN NoUser
                                                   ELSE holder[st][s]]]

Next ==
  \/ \E u \in Users, st \in Showtimes, s \in Seats : Acquire(u, st, s)
  \/ \E F \in SUBSET (Showtimes \X Seats) : Free(F)
=============================================================================
