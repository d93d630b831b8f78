-------------------------- MODULE MCBookingPayment --------------------------
(* One booking with few payment methods and overlapping operations.        *)
EXTENDS BookingPayment, TLC

\* The methods and the slots of the operations are interchangeable.
Symmetry == Permutations(Methods) \cup Permutations(Handlers)
=============================================================================
