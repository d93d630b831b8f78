---------------------------- MODULE BookingPolicy ----------------------------
(***************************************************************************)
(* The state machine of a booking as assertBookingTransition states it.    *)
(* Only the admin operations call the assertion; the other handlers write  *)
(* the status directly.                                                    *)
(***************************************************************************)
VARIABLE status       \* the status of the booking

Statuses == {"PENDING", "CONFIRMED", "CANCELLED", "EXPIRED", "COMPLETED",
             "REFUNDED"}

allowed ==
  [s \in Statuses |->
     CASE s = "PENDING"   -> {"CONFIRMED", "CANCELLED", "EXPIRED"}
       [] s = "CONFIRMED" -> {"COMPLETED", "CANCELLED", "REFUNDED"}
       [] OTHER           -> {}]

CanTransition(current, next) == current = next \/ next \in allowed[current]
=============================================================================
